---- MODULE Spec2Model ----
(***************************************************************************)
(* Questionary: a quiz runner.  The model covers the document pipeline     *)
(* (src/src/utils.ts), the session state of QuizPage (src/src/App.tsx,     *)
(* lines 61-409), the IndexedDB store (src/src/App.tsx, lines 752-893) and *)
(* the results computation (src/unnamed/part_000, src/unnamed/part_003).   *)
(***************************************************************************)
EXTENDS Integers, Sequences, FiniteSets, TLC

(***************************************************************************)
(* Bounds of the model.                                                    *)
(***************************************************************************)
\* number of questions of the largest document the session loads
NumQuestions == 2
\* the clock (Date.now()) runs over 0..MaxTime in the session specification
MaxTime == 1
\* documents loaded in one behaviour of SpecDocs (session ids generated)
MaxSessions == 2
\* documents loaded in one behaviour of Spec
MaxLoads == 1
\* store requests that may be in flight at the same time
MaxInFlight == 1
\* items after the metadata item in the trees parseQuestionsFromText is given
MaxItems == 2
\* characters of the longest text exportAsCSV is given, the prompt aside
MaxCell == 2

(***************************************************************************)
(* JavaScript values.  Every value carries its type tag, so that values of *)
(* different types can be compared (=== is equality of tagged values).     *)
(***************************************************************************)
Undefined == [t |-> "undefined"]
JNull == [t |-> "null"]
JStr(s) == [t |-> "string", s |-> s]
\* a number n, or n + 1/2 when frac is TRUE
JNumF(n, frac) == [t |-> "number", n |-> n, frac |-> frac]
JNum(n) == JNumF(n, FALSE)
JBool(b) == [t |-> "boolean", b |-> b]
JArr(a) == [t |-> "array", a |-> a]
JObj(o) == [t |-> "object", o |-> o]

\* the typeof operator
TypeOf(v) ==
  IF v.t \in {"null", "array", "object"} THEN "object" ELSE v.t

\* the truthiness of a value (what !v negates)
Truthy(v) ==
  CASE v.t = "undefined" -> FALSE
    [] v.t = "null" -> FALSE
    [] v.t = "string" -> v.s # ""
    [] v.t = "number" -> v.n # 0 \/ v.frac
    [] v.t = "boolean" -> v.b
    [] OTHER -> TRUE

\* decimal digits of the small integers the model uses
Digits == <<"0", "1", "2", "3", "4", "5", "6", "7", "8", "9">>

\* String(v) for the values the model draws
ToStr(v) ==
  CASE v.t = "string" -> v.s
    [] v.t = "number" ->
         IF v.frac THEN "fraction"
         ELSE IF v.n \in 0..9 THEN Digits[v.n + 1] ELSE "number"
    [] v.t = "boolean" -> IF v.b THEN "true" ELSE "false"
    [] v.t = "null" -> "null"
    [] v.t = "undefined" -> "undefined"
    [] v.t = "array" -> "array"
    [] OTHER -> "[object Object]"

\* property access v.key: undefined when v has no such property
Prop(v, key) ==
  IF v.t = "object" /\ key \in DOMAIN v.o THEN v.o[key] ELSE Undefined

\* Object.keys(v), as a set
Keys(v) == IF v.t = "object" THEN DOMAIN v.o ELSE {}

\* an optional string field: x ? String(x) : undefined
OptStr(v) == IF Truthy(v) THEN JStr(ToStr(v)) ELSE Undefined

\* the concatenation of a sequence of sequences
RECURSIVE Flatten(_)
Flatten(ss) == IF ss = <<>> THEN <<>> ELSE Head(ss) \o Flatten(Tail(ss))

(***************************************************************************)
(* validateQuizData (src/src/utils.ts:56-178).  A thrown Error is a record *)
(* [ok |-> FALSE, kind, errors]; errors lists the pushed messages, each    *)
(* message a record naming its template and the values interpolated.       *)
(***************************************************************************)
Thrown(kind, errors) == [ok |-> FALSE, kind |-> kind, errors |-> errors]
Returned(data) == [ok |-> TRUE, data |-> data]

\* the metadata checks on raw[0] (utils.ts:68-87)
MetadataErrors(metadataItem) ==
  IF ~Truthy(metadataItem) \/ TypeOf(metadataItem) # "object"
  THEN << [msg |-> "first item must be a metadata object",
           got |-> IF metadataItem.t = "null" THEN "null" ELSE TypeOf(metadataItem)] >>
  ELSE IF ~Truthy(Prop(metadataItem, "metadata"))
          \/ TypeOf(Prop(metadataItem, "metadata")) # "object"
  THEN << [msg |-> "first item must contain a 'metadata' object",
           keys |-> Keys(metadataItem)] >>
  ELSE IF ~Truthy(Prop(Prop(metadataItem, "metadata"), "name"))
          \/ TypeOf(Prop(Prop(metadataItem, "metadata"), "name")) # "string"
  THEN << [msg |-> "metadata must have a required 'name' field (string)",
           metadata |-> Prop(metadataItem, "metadata")] >>
  ELSE << >>

\* the required fields an item lacks (utils.ts:110-113)
MissingFields(q) ==
  SelectSeq(<<"id", "type", "prompt">>, LAMBDA f : ~Truthy(Prop(q, f)))

\* the typed question built from a valid mc item (utils.ts:142-149)
BuildMC(q) ==
  [id |-> ToStr(Prop(q, "id")),
   type |-> "mc",
   prompt |-> ToStr(Prop(q, "prompt")),
   options |-> [i \in 1..Len(Prop(q, "options").a) |-> ToStr(Prop(q, "options").a[i])],
   answer |-> Prop(q, "answer"),
   explanation |-> OptStr(Prop(q, "explanation"))]

\* the typed question built from a valid tf item (utils.ts:156-162)
BuildTF(q) ==
  [id |-> ToStr(Prop(q, "id")),
   type |-> "tf",
   prompt |-> ToStr(Prop(q, "prompt")),
   options |-> << >>,
   answer |-> Prop(q, "answer"),
   explanation |-> OptStr(Prop(q, "explanation"))]

\* one iteration of the loop over raw[1..]: the messages pushed and the
\* question pushed, if any (utils.ts:100-167)
CheckItem(q, questionNum) ==
  LET Bad(es) == [errors |-> es, questions |-> << >>]
      Good(x) == [errors |-> << >>, questions |-> <<x>>]
  IN
  IF ~Truthy(q) \/ TypeOf(q) # "object"
  THEN Bad(<< [msg |-> "must be an object", num |-> questionNum,
               got |-> IF q.t = "null" THEN "null" ELSE TypeOf(q)] >>)
  ELSE IF Len(MissingFields(q)) > 0
  THEN Bad(<< [msg |-> "missing required fields", num |-> questionNum,
               fields |-> MissingFields(q)],
              [msg |-> "found keys", keys |-> Keys(q)] >>)
  ELSE IF Prop(q, "type") = JStr("mc")
  THEN IF Prop(q, "options").t # "array"
       THEN Bad(<< [msg |-> "'options' must be an array", num |-> questionNum],
                   [msg |-> "example: options"] >>)
       ELSE IF Len(Prop(q, "options").a) < 2
       THEN Bad(<< [msg |-> "must have at least 2 options", num |-> questionNum,
                    got |-> Len(Prop(q, "options").a)] >>)
       ELSE IF TypeOf(Prop(q, "answer")) # "number"
       THEN Bad(<< [msg |-> "'answer' must be a number (index)", num |-> questionNum,
                    got |-> TypeOf(Prop(q, "answer"))],
                   [msg |-> "example: answer"] >>)
       ELSE IF Prop(q, "answer").n < 0
               \/ Prop(q, "answer").n >= Len(Prop(q, "options").a)
       THEN Bad(<< [msg |-> "answer index is out of range", num |-> questionNum,
                    answer |-> Prop(q, "answer"),
                    validFrom |-> 0,
                    validTo |-> Len(Prop(q, "options").a) - 1] >>)
       ELSE Good(BuildMC(q))
  ELSE IF Prop(q, "type") = JStr("tf")
  THEN IF TypeOf(Prop(q, "answer")) # "boolean"
       THEN Bad(<< [msg |-> "'answer' must be true or false", num |-> questionNum,
                    got |-> Prop(q, "answer")],
                   [msg |-> "example: answer: true"] >>)
       ELSE Good(BuildTF(q))
  ELSE Bad(<< [msg |-> "unknown question type", num |-> questionNum,
               type |-> Prop(q, "type")] >>)

\* validateQuizData(raw): raw is the sequence of items of the top-level array
validateQuizData(raw) ==
  IF Len(raw) = 0 THEN Thrown("empty array", << >>)
  ELSE IF MetadataErrors(raw[1]) # << >>
  THEN Thrown("metadata validation failed", MetadataErrors(raw[1]))
  ELSE
    LET md == Prop(raw[1], "metadata")
        metadata == [name |-> ToStr(Prop(md, "name")),
                     author |-> OptStr(Prop(md, "author"))]
        checked == [i \in 1..(Len(raw) - 1) |-> CheckItem(raw[i + 1], i)]
        errors == Flatten([i \in 1..Len(checked) |-> checked[i].errors])
        pushed == Flatten([i \in 1..Len(checked) |-> checked[i].questions])
    IN IF errors # << >> THEN Thrown("question validation failed", errors)
       ELSE IF Len(pushed) = 0 THEN Thrown("no valid questions", << >>)
       ELSE Returned([metadata |-> metadata, questions |-> pushed])

(***************************************************************************)
(* parseQuestionsFromText (src/src/utils.ts:14-54).  JSON.parse and        *)
(* yaml.load are library code: a text is given by what each of them does   *)
(* with it, [ok |-> TRUE, value] or [ok |-> FALSE, message].               *)
(***************************************************************************)
Parsed(value) == [ok |-> TRUE, value |-> value]
SyntaxError(message) == [ok |-> FALSE, message |-> message]

\* Array.isArray(x) ? x : [x]
AsArray(v) == IF v.t = "array" THEN v.a ELSE <<v>>

\* the message of the error with which a try block ends, or "" when it returns
TryMessage(parse) ==
  IF ~parse.ok THEN parse.message
  ELSE IF ~validateQuizData(AsArray(parse.value)).ok
  THEN validateQuizData(AsArray(parse.value)).kind
  ELSE ""

\* the hints added to "Failed to parse file." (utils.ts:35-45)
JsonHint(message) ==
  IF message = "Unexpected token" THEN "YAML with JSON-like syntax errors"
  ELSE IF message = "Expected property name" THEN "invalid JSON format"
  ELSE ""
YamlHint(message) ==
  IF message = "bad indentation" THEN "YAML indentation error"
  ELSE IF message = "duplicated mapping key" THEN "YAML duplicate keys"
  ELSE ""

\* a parse that goes to the parsers whatever the text
parseQuestionsFromTextUnchecked(text) ==
  IF TryMessage(text.json) = ""
  THEN validateQuizData(AsArray(text.json.value))
  ELSE IF TryMessage(text.yaml) = ""
  THEN validateQuizData(AsArray(text.yaml.value))
  ELSE Thrown("failed to parse file",
              << [msg |-> JsonHint(TryMessage(text.json))],
                 [msg |-> YamlHint(TryMessage(text.yaml))],
                 [msg |-> "expected format"] >>)

\* a parse that gives up when JSON.parse or the validation after it throws
parseQuestionsFromTextJsonOnly(text) ==
  IF text.blank THEN Thrown("file is empty", << >>)
  ELSE IF TryMessage(text.json) = ""
  THEN validateQuizData(AsArray(text.json.value))
  ELSE Thrown("failed to parse file",
              << [msg |-> JsonHint(TryMessage(text.json))],
                 [msg |-> "expected format"] >>)

parseQuestionsFromText(text) ==
  IF text.blank THEN Thrown("file is empty", << >>)
  ELSE IF TryMessage(text.json) = ""
  THEN validateQuizData(AsArray(text.json.value))
  ELSE IF TryMessage(text.yaml) = ""
  THEN validateQuizData(AsArray(text.yaml.value))
  ELSE Thrown("failed to parse file",
              << [msg |-> JsonHint(TryMessage(text.json))],
                 [msg |-> YamlHint(TryMessage(text.yaml))],
                 [msg |-> "expected format"] >>)

(***************************************************************************)
(* The documents and texts the session specification loads.                *)
(***************************************************************************)
QId(i) == "Q" \o Digits[i + 1]

\* question i of the pool: odd i true/false, even i multiple choice
PoolQuestion(i) ==
  IF i % 2 = 1
  THEN [id |-> QId(i), type |-> "tf", prompt |-> "statement", options |-> << >>,
        answer |-> JBool(i % 4 = 1), explanation |-> Undefined]
  ELSE [id |-> QId(i), type |-> "mc", prompt |-> "pick B", options |-> <<"A", "B">>,
        answer |-> JNum(1), explanation |-> Undefined]

\* the document with questions from..NumQuestions of the pool
PoolDocument(from) ==
  [metadata |-> [name |-> "Sample", author |-> Undefined],
   questions |-> [i \in 1..(NumQuestions - from + 1) |-> PoolQuestion(from + i - 1)]]

\* an object with the property key added when the value is defined: a
\* serialization leaves out the properties that are undefined
WithDefined(o, key, value) ==
  IF value = Undefined THEN o
  ELSE [k \in DOMAIN o \cup {key} |-> IF k = key THEN value ELSE o[k]]

\* the raw item a parser yields for the serialization of a typed question
RawQuestion(q) ==
  IF q.type = "mc"
  THEN JObj(WithDefined(
              [id |-> JStr(q.id), type |-> JStr("mc"), prompt |-> JStr(q.prompt),
               options |-> JArr([i \in 1..Len(q.options) |-> JStr(q.options[i])]),
               answer |-> q.answer],
              "explanation", q.explanation))
  ELSE JObj(WithDefined(
              [id |-> JStr(q.id), type |-> JStr("tf"), prompt |-> JStr(q.prompt),
               answer |-> q.answer],
              "explanation", q.explanation))

\* the raw tree of the serialization of a typed document: the metadata
\* item, then the questions
RawDocument(doc) ==
  JArr(<< JObj([metadata |->
                  JObj(WithDefined([name |-> JStr(doc.metadata.name)],
                                   "author", doc.metadata.author))]) >>
       \o [i \in 1..Len(doc.questions) |-> RawQuestion(doc.questions[i])])

\* a text both parsers accept, a text only yaml.load accepts
JsonText(value) == [blank |-> FALSE, json |-> Parsed(value), yaml |-> Parsed(value)]
YamlText(value) ==
  [blank |-> FALSE, json |-> SyntaxError("Unexpected token"), yaml |-> Parsed(value)]
BlankText == [blank |-> TRUE, json |-> SyntaxError("Unexpected end"),
              yaml |-> Parsed(Undefined)]

\* a document whose only question has answer == len(options)
OutOfRangeDocument ==
  JArr(<< JObj([metadata |-> JObj([name |-> JStr("Sample")])]),
          JObj([id |-> JStr("Q2"), type |-> JStr("mc"), prompt |-> JStr("pick B"),
                options |-> JArr(<<JStr("A"), JStr("B")>>), answer |-> JNum(2)]) >>)

\* the pool document with every question under the id of the first: the
\* validation does not compare the ids of the questions
DuplicateIdDocument ==
  [PoolDocument(1) EXCEPT
     !.questions = [i \in 1..Len(PoolDocument(1).questions) |->
                      [PoolDocument(1).questions[i] EXCEPT !.id = QId(1)]]]

\* the texts of the k-th document of a behaviour of SpecDocs: a valid
\* document, the pool from question k on (as JSON for odd k, as YAML for even
\* k), and a document that fails validation
SessionTexts(k) ==
  { IF k % 2 = 1 THEN JsonText(RawDocument(PoolDocument(k)))
    ELSE YamlText(RawDocument(PoolDocument(k))),
    JsonText(OutOfRangeDocument) }

\* the texts of a behaviour of Spec: those, and the document with one id
LoadableTexts(k) ==
  SessionTexts(k) \cup {JsonText(RawDocument(DuplicateIdDocument))}

\* a text neither JSON.parse nor yaml.load accepts
UnparsableText == [blank |-> FALSE, json |-> SyntaxError("Unexpected token"),
                   yaml |-> SyntaxError("bad indentation")]

\* the texts parseQuestionsFromText throws on: the empty one, the
\* unparsable one, one that violates the schema
FailingTexts == {BlankText, UnparsableText, JsonText(OutOfRangeDocument)}

\* parseQuestionsFromText on the texts of the sessions, evaluated once
ParsedTexts ==
  {[text |-> text, parsed |-> parseQuestionsFromText(text)] :
     text \in FailingTexts \cup UNION {LoadableTexts(k) : k \in 1..(MaxSessions + 1)}}

(***************************************************************************)
(* The state of QuizPage (src/src/App.tsx:62-72), the store and the clock. *)
(***************************************************************************)
VARIABLES
  view,              \* "setup" | "settings" | "quiz" | "results"
  quizData,          \* the loaded document, or Null
  questions,         \* the questions in the order presented
  originalQuestions, \* the questions in document order
  quizSettings,      \* [randomOrder]
  currentIndex,      \* 0-based index into questions
  answers,           \* function from question ids to the values chosen
  error,             \* the message shown on the setup screen, or Null
  savedQuizData,     \* the snapshot offered for resume, or Null
  savedQuizId,       \* the session id, or Null
  restoringQuizRef,  \* the ref that makes the reset effect skip one run
  store,             \* the object store "quizzes": function from ids to records
  now,               \* Date.now()
  idsIssued,         \* number of session ids generated so far
  timerPending,      \* the number of timeouts of the auto-save effect not yet fired
  inflight,          \* store requests issued and not yet completed, oldest first
  last,              \* the operation that produced this state, with its inputs
  input,             \* the argument of the function under test
  output             \* its result, or Null before the call

vars == << view, quizData, questions, originalQuestions, quizSettings, currentIndex,
           answers, error, savedQuizData, savedQuizId, restoringQuizRef, store, now,
           idsIssued, timerPending, inflight, last, input, output >>

\* the variables of the React component
session == << view, quizData, questions, originalQuestions, quizSettings,
              currentIndex, answers, error, savedQuizData, savedQuizId,
              restoringQuizRef >>

Null == [null |-> TRUE]
EmptyAnswers == [k \in {} |-> Undefined]

\* answers[id]
AnswerOf(ans, id) == IF id \in DOMAIN ans THEN ans[id] ELSE Undefined

\* questions.map((q) => q.id)
Ids(qs) == [i \in 1..Len(qs) |-> qs[i].id]

total == Len(questions)
HasCurrent == currentIndex + 1 \in 1..Len(questions)
current == questions[currentIndex + 1]

\* Object.values(a).filter((v) => v !== undefined).length (App.tsx:77-80)
CountAnswered(a) == Cardinality({k \in DOMAIN a : a[k] # Undefined})
answeredCount == CountAnswered(answers)

\* buildSavedQuizState(quizId), for a loaded document (App.tsx:82-101)
buildSavedQuizState(quizId) ==
  [id |-> quizId,
   quizData |-> quizData,
   settings |-> quizSettings,
   answers |-> answers,
   currentIndex |-> currentIndex,
   timestamp |-> now,
   completed |-> (total > 0 /\ answeredCount = total),
   questionOrder |-> Ids(questions),
   currentQuestionId |-> IF HasCurrent THEN JStr(current.id) ELSE JNull,
   orderedQuestions |-> questions]

(***************************************************************************)
(* Helpers of the handlers.                                                *)
(***************************************************************************)
Min(a, b) == IF a < b THEN a ELSE b
Max(a, b) == IF a > b THEN a ELSE b

\* a reset effect that returns to the first question and keeps the answers
ResetNavigationKeepsAnswers(restoring, idx, ans) ==
  [restoringQuizRef |-> FALSE, currentIndex |-> IF restoring THEN idx ELSE 0,
   answers |-> ans]

\* the reset-navigation effect on [questions] (App.tsx:146-155), run after a
\* handler that set questions; idx and ans are what the handler left
ResetNavigation(restoring, idx, ans) ==
  IF restoring
  THEN [restoringQuizRef |-> FALSE, currentIndex |-> idx, answers |-> ans]
  ELSE [restoringQuizRef |-> FALSE, currentIndex |-> 0, answers |-> EmptyAnswers]

\* [a[i], a[j]] = [a[j], a[i]] on 0-based positions
Swap(a, i, j) ==
  [k \in 1..Len(a) |-> IF k = i + 1 THEN a[j + 1] ELSE IF k = j + 1 THEN a[i + 1] ELSE a[k]]

\* the draws of Math.floor(Math.random() * i): js[i] in 0..i-1
ShuffleChoicesShort(n) ==
  {js \in [1..(n - 1) -> 0..(n - 1)] : \A i \in 1..(n - 1) : js[i] < i}

\* the values Math.floor(Math.random() * (i + 1)) can take in the loop:
\* js[i] in 0..i for every i in 1..n-1
ShuffleChoices(n) ==
  {js \in [1..(n - 1) -> 0..(n - 1)] : \A i \in 1..(n - 1) : js[i] <= i}

\* the Fisher-Yates loop from index i down to 1 (App.tsx:321-324)
RECURSIVE FisherYates(_, _, _)
FisherYates(a, i, js) ==
  IF i <= 0 THEN a ELSE FisherYates(Swap(a, i, js[i]), i - 1, js)

\* quizQuestions of handleStartQuiz (App.tsx:318-325)
StartOrder(original, settings, js) ==
  IF settings.randomOrder THEN FisherYates(original, Len(original) - 1, js)
  ELSE original

\* the values QuestionPage passes to onChange (QuestionPage.tsx:54, 82)
AnswerChoices(q) ==
  IF q.type = "mc" THEN {JNum(i - 1) : i \in 1..Len(q.options)}
  ELSE {JBool(TRUE), JBool(FALSE)}

\* { ...prev, [id]: value }
WithAnswer(ans, id, value) ==
  [k \in DOMAIN ans \cup {id} |-> IF k = id THEN value ELSE ans[k]]

(***************************************************************************)
(* handleResumeQuiz (App.tsx:215-268) as functions of the snapshot.  An    *)
(* absent questionOrder or orderedQuestions is the empty sequence: the     *)
(* code treats absent and empty alike.                                     *)
(***************************************************************************)
HasId(qs, id) == \E i \in 1..Len(qs) : qs[i].id = id

\* byId.get(id): the Map keeps the last question that carries the id
ById(qs, id) ==
  qs[CHOOSE i \in 1..Len(qs) :
       qs[i].id = id /\ \A j \in (i + 1)..Len(qs) : qs[j].id # id]

\* savedOrderIds (App.tsx:223-226)
SavedOrderIds(saved) ==
  IF Len(saved.questionOrder) > 0 THEN saved.questionOrder
  ELSE Ids(saved.orderedQuestions)

\* mapped (App.tsx:230-232)
Mapped(saved) ==
  LET base == saved.quizData.questions
      known == SelectSeq(SavedOrderIds(saved), LAMBDA id : HasId(base, id))
  IN [i \in 1..Len(known) |-> ById(base, known[i])]

\* a resume that presents the saved questions that are left and none of
\* the questions new to the document
ResumeOrderKnownOnly(saved) ==
  IF Len(Mapped(saved)) > 0 THEN Mapped(saved)
  ELSE IF Len(saved.orderedQuestions) > 0 THEN saved.orderedQuestions
  ELSE saved.quizData.questions

\* a resume that presents the questions in document order
ResumeOrderOfDocument(saved) == saved.quizData.questions

\* a resume that falls back to the saved questions as soon as one saved id
\* is gone from the document
ResumeOrderAllOrNothing(saved) ==
  LET base == saved.quizData.questions
      mapped == Mapped(saved)
  IN IF Len(saved.orderedQuestions) > 0 /\ Len(mapped) < Len(SavedOrderIds(saved))
     THEN saved.orderedQuestions
     ELSE mapped \o SelectSeq(base, LAMBDA q : ~HasId(mapped, q.id))

\* orderedQuestions (App.tsx:228-243)
ResumeOrder(saved) ==
  LET base == saved.quizData.questions
      mapped == Mapped(saved)
      missing == SelectSeq(base, LAMBDA q : ~HasId(mapped, q.id))
  IN IF Len(SavedOrderIds(saved)) > 0
     THEN IF Len(mapped) > 0 THEN mapped \o missing
          ELSE IF Len(saved.orderedQuestions) > 0 THEN saved.orderedQuestions
          ELSE base
     ELSE IF Len(saved.orderedQuestions) > 0 THEN saved.orderedQuestions
     ELSE base

\* orderedQuestions.findIndex((q) => q.id === id), -1 when there is none
FindIndex(qs, id) ==
  IF HasId(qs, id)
  THEN (CHOOSE i \in 1..Len(qs) : qs[i].id = id /\ \A j \in 1..(i - 1) : qs[j].id # id) - 1
  ELSE -1

\* a restoredIndex that trusts the saved index when the question shown is
\* found nowhere
ResumeIndexUnclamped(saved, ordered) ==
  LET cq == saved.currentQuestionId
      idx == IF Truthy(cq) THEN FindIndex(ordered, cq.s) ELSE -1
  IN IF idx # -1 THEN idx ELSE saved.currentIndex

\* restoredIndex (App.tsx:252-263)
ResumeIndex(saved, ordered) ==
  LET cq == saved.currentQuestionId
      idx == IF Truthy(cq) THEN FindIndex(ordered, cq.s) ELSE -1
      restoredIndex == IF idx # -1 THEN idx ELSE saved.currentIndex
  IN IF Len(ordered) = 0 THEN 0
     ELSE Min(Max(restoredIndex, 0), Len(ordered) - 1)

(***************************************************************************)
(* The results (src/unnamed/part_000, src/src/utils.ts:180-192).           *)
(***************************************************************************)
\* the em dash shown for a missing answer
Dash == "--"

\* options[v]: undefined unless v is an index of options
OptionAt(options, v) ==
  IF v.t = "number" /\ ~v.frac /\ v.n + 1 \in 1..Len(options)
  THEN JStr(options[v.n + 1]) ELSE Undefined

\* formatCorrectAnswer(q) (utils.ts:180-183)
formatCorrectAnswer(q) ==
  IF q.type = "mc" THEN OptionAt(q.options, q.answer)
  ELSE JStr(IF Truthy(q.answer) THEN "True" ELSE "False")

\* formatUserAnswer(q, value) (utils.ts:185-192)
formatUserAnswer(q, value) ==
  IF value = Undefined THEN JStr(Dash)
  ELSE IF q.type = "mc"
  THEN IF TypeOf(value) # "number" THEN JStr(Dash)
       ELSE IF OptionAt(q.options, value) \in {Undefined, JNull} THEN JStr(Dash)
       ELSE OptionAt(q.options, value)
  ELSE JStr(IF Truthy(value) THEN "True" ELSE "False")

\* a comparison that converts a boolean to a number before comparing
LooseEquals(a, b) ==
  LET num(v) == IF v.t = "boolean" THEN JNum(IF v.b THEN 1 ELSE 0) ELSE v
  IN num(a) = num(b)

\* a generateQuizResults that compares with conversion and no type test
generateQuizResultsLoose(qs, ans) ==
  [idx \in 1..Len(qs) |->
     LET q == qs[idx]
         user == AnswerOf(ans, q.id)
     IN [questionNumber |-> idx,
         questionId |-> q.id,
         questionText |-> q.prompt,
         questionType |-> q.type,
         userAnswer |-> formatUserAnswer(q, user),
         correctAnswer |-> formatCorrectAnswer(q),
         isCorrect |-> LooseEquals(user, q.answer),
         explanation |-> q.explanation]]

\* generateQuizResults(questions, answers) (part_000:16-37)
generateQuizResults(qs, ans) ==
  [idx \in 1..Len(qs) |->
     LET q == qs[idx]
         user == AnswerOf(ans, q.id)
     IN [questionNumber |-> idx,
         questionId |-> q.id,
         questionText |-> q.prompt,
         questionType |-> q.type,
         userAnswer |-> formatUserAnswer(q, user),
         correctAnswer |-> formatCorrectAnswer(q),
         isCorrect |-> IF q.type = "mc"
                       THEN TypeOf(user) = "number" /\ user = q.answer
                       ELSE TypeOf(user) = "boolean" /\ user = q.answer,
         explanation |-> q.explanation]]

\* a rounding that drops the fraction
MathFloor(num, den) == num \div den

\* Math.round(num / den) for num >= 0 and den > 0: halves round up
MathRound(num, den) == (2 * num + den) \div (2 * den)

\* what ResultsView computes from its props (part_003:12-31): the rows, the
\* score line "Score: correctCount / total (pct%)" and the export data
ResultsView(qs, ans) ==
  LET rows == [idx \in 1..Len(qs) |->
                 LET q == qs[idx]
                     user == AnswerOf(ans, q.id)
                 IN [idx |-> idx - 1, q |-> q, user |-> user,
                     isCorrect |-> IF q.type = "mc"
                                   THEN TypeOf(user) = "number" /\ user = q.answer
                                   ELSE TypeOf(user) = "boolean" /\ user = q.answer]]
      correct == Cardinality({i \in 1..Len(rows) : rows[i].isCorrect})
  IN [rows |-> rows,
      correctCount |-> correct,
      total |-> Len(qs),
      pct |-> IF Len(qs) # 0 THEN MathRound(correct * 100, Len(qs)) ELSE 0,
      exportResults |-> generateQuizResults(qs, ans)]

\* the props QuizPage passes to ResultsView (App.tsx:395-397)
ResultsProps == [questions |-> questions, answers |-> answers]

\* exportResults of ResultsView (part_003:31)
exportResults == generateQuizResults(ResultsProps.questions, ResultsProps.answers)

(***************************************************************************)
(* exportAsCSV (part_000:53-77).  Here a text is the sequence of its       *)
(* characters, so that a quote inside a text can be told from the quotes   *)
(* put around it; a word without quote, comma or line break is written as  *)
(* one character.                                                          *)
(***************************************************************************)
DQ == "\""
Comma == ","
LineBreak == "\n"

\* parts.join(sep)
RECURSIVE Join(_, _)
Join(parts, sep) ==
  IF parts = << >> THEN << >>
  ELSE IF Len(parts) = 1 THEN parts[1]
  ELSE parts[1] \o sep \o Join(Tail(parts), sep)

\* text.replace(/"/g, '""')
ReplaceQuotes(text) ==
  Flatten([i \in 1..Len(text) |-> IF text[i] = DQ THEN <<DQ, DQ>> ELSE <<text[i]>>])

\* `"${text}"`
Quoted(text) == <<DQ>> \o text \o <<DQ>>

\* headers (part_000:54-63)
CsvHeaders ==
  << <<"Question Number">>, <<"Question ID">>, <<"Question Text">>,
     <<"Question Type">>, <<"User Answer">>, <<"Correct Answer">>,
     <<"Is Correct">>, <<"Explanation">> >>

\* the cells of one result (part_000:67-76)
CsvRow(result) ==
  << <<Digits[result.questionNumber + 1]>>,
     Quoted(result.questionId),
     Quoted(ReplaceQuotes(result.questionText)),
     <<result.questionType>>,
     Quoted(result.userAnswer),
     Quoted(result.correctAnswer),
     <<IF result.isCorrect THEN "true" ELSE "false">>,
     IF result.explanation # Undefined /\ result.explanation.s # << >>
     THEN Quoted(ReplaceQuotes(result.explanation.s)) ELSE << >> >>

\* csvContent of exportAsCSV(results) (part_000:65-77)
exportAsCSV(results) ==
  Join(<< Join(CsvHeaders, <<Comma>>) >>
       \o [i \in 1..Len(results) |-> Join(CsvRow(results[i]), <<Comma>>)],
       <<LineBreak>>)

(***************************************************************************)
(* The store (App.tsx:752-893): the object store "quizzes", keyPath "id",  *)
(* with an index on timestamp.                                             *)
(***************************************************************************)
\* a put that reports success and stores nothing
StorePutLost(st, rec) == st

\* store.put(state)
StorePut(st, rec) ==
  [k \in DOMAIN st \cup {rec.id} |-> IF k = rec.id THEN rec ELSE st[k]]

\* store.clear() in the place of store.delete(quizId)
StoreDeleteAll(st, id) == << >>

\* store.delete(quizId)
StoreDelete(st, id) == [k \in DOMAIN st \ {id} |-> st[k]]

\* a cursor over the object store instead of its index on timestamp: the
\* record with the greatest key
MostRecentByKey(st) ==
  {st[k] : k \in {k \in DOMAIN st : \A m \in DOMAIN st : m.sid <= k.sid}}

\* the records the cursor index.openCursor(null, "prev") can yield first:
\* those with the greatest timestamp
MostRecent(st) ==
  {st[k] : k \in {k \in DOMAIN st : \A m \in DOMAIN st : st[m].timestamp <= st[k].timestamp}}

\* 7 * 24 * 60 * 60 * 1000 (App.tsx:110)
SevenDays == 7 * 24 * 60 * 60 * 1000

\* a test that lets a snapshot of exactly seven days pass
OfferedAtStartupInclusive(savedQuiz, time) ==
  ~savedQuiz.completed /\ savedQuiz.timestamp >= time - SevenDays

\* the test of loadSavedProgress (App.tsx:108-113)
OfferedAtStartup(savedQuiz, time) ==
  ~savedQuiz.completed /\ savedQuiz.timestamp > time - SevenDays

(***************************************************************************)
(* The handlers of QuizPage.  A handler that sets questions is followed by *)
(* the reset-navigation effect; every handler that changes a dependency of *)
(* the auto-save effect re-arms its timer (App.tsx:139-141).               *)
(***************************************************************************)
\* an effect without its cleanup: every run leaves one more timeout
EffectRerunNoCleanup(pending) == pending + 1

\* the auto-save effect runs again (App.tsx:139-140): the cleanup of the
\* last run clears the timeout that run set, if it has not fired, and
\* setTimeout(autoSave, 1000) sets a new one
EffectRerun(pending) == (IF pending > 0 THEN pending - 1 ELSE pending) + 1

\* a handleLoadText that assigns no session id
NoId == Null

\* `quiz_${Date.now()}_${Math.random()...}`: an id not generated before
NewId == [sid |-> idsIssued + 1]

\* a handleLoadText that shows the settings whatever the parse did
ViewAfterLoadAlways(ok, shown) == "settings"

\* the view after handleLoadText: setView("settings") is the last statement
\* of the try block (App.tsx:302), not reached when the parse throws
ViewAfterLoad(ok, shown) == IF ok THEN "settings" ELSE shown

\* handleLoadText(text) (App.tsx:292-306)
LoadText(text) ==
  LET parsed == (CHOOSE r \in ParsedTexts : r.text = text).parsed
      reset == ResetNavigation(restoringQuizRef, currentIndex, answers)
  IN
  /\ last' = [op |-> "load", ok |-> parsed.ok]
  /\ IF parsed.ok
     THEN /\ idsIssued < MaxSessions
          /\ error' = Null
          /\ quizData' = parsed.data
          /\ originalQuestions' = parsed.data.questions
          /\ questions' = parsed.data.questions
          /\ quizSettings' = [randomOrder |-> FALSE]
          /\ savedQuizId' = NewId
          /\ idsIssued' = idsIssued + 1
          /\ view' = ViewAfterLoad(TRUE, view)
          /\ restoringQuizRef' = reset.restoringQuizRef
          /\ currentIndex' = reset.currentIndex
          /\ answers' = reset.answers
          /\ timerPending' = EffectRerun(timerPending)
          /\ UNCHANGED savedQuizData
     ELSE /\ error' = parsed
          /\ view' = ViewAfterLoad(FALSE, view)
          /\ UNCHANGED << quizData, questions, originalQuestions, quizSettings,
                          currentIndex, answers, savedQuizData, savedQuizId,
                          restoringQuizRef, idsIssued, timerPending >>
  /\ UNCHANGED << store, now, inflight, input, output >>

\* "Load from Paste" on the setup screen (SetupView, QuestionPage.tsx:218)
HandleLoadText(text) ==
  /\ view = "setup"
  /\ LoadText(text)

\* reader.onload of handleUploadFile (App.tsx:308-313): the file chosen on
\* the setup screen has been read, whatever the page shows by now
FileReaderOnLoad(text) ==
  /\ last.op # "mount"
  /\ LoadText(text)

\* handleStartQuiz(settings), js the random draws (App.tsx:315-329)
HandleStartQuiz(settings, js) ==
  LET reset == ResetNavigation(restoringQuizRef, currentIndex, answers) IN
  /\ view = "settings"
  /\ quizSettings' = settings
  /\ questions' = StartOrder(originalQuestions, settings, js)
  /\ view' = "quiz"
  /\ restoringQuizRef' = reset.restoringQuizRef
  /\ currentIndex' = reset.currentIndex
  /\ answers' = reset.answers
  /\ timerPending' = EffectRerun(timerPending)
  /\ last' = [op |-> "start", randomOrder |-> settings.randomOrder]
  /\ UNCHANGED << quizData, originalQuestions, error, savedQuizData, savedQuizId,
                  store, now, idsIssued, inflight, input, output >>

\* onSelectAnswer(value) (App.tsx:157-160)
OnSelectAnswer(value) ==
  /\ view = "quiz" /\ HasCurrent
  /\ answers' = WithAnswer(answers, current.id, value)
  /\ timerPending' = EffectRerun(timerPending)
  /\ last' = [op |-> "answer", value |-> value]
  /\ UNCHANGED << view, quizData, questions, originalQuestions, quizSettings,
                  currentIndex, error, savedQuizData, savedQuizId, restoringQuizRef,
                  store, now, idsIssued, inflight, input, output >>

\* a handleNext that advances from the last question as from any other
NextIndexUnbounded(idx, tot, currentAnswer) ==
  IF currentAnswer = Undefined THEN idx ELSE idx + 1

\* a handleNext that advances without looking at the answer
NextIndexUnchecked(idx, tot, currentAnswer) ==
  IF idx < tot - 1 THEN idx + 1 ELSE idx

\* the index handleNext leaves (App.tsx:163-170)
NextIndex(idx, tot, currentAnswer) ==
  IF idx < tot - 1
  THEN IF currentAnswer = Undefined THEN idx ELSE idx + 1
  ELSE idx

\* handleNext() (App.tsx:162-171)
HandleNext ==
  LET alerted == currentIndex < total - 1
                 /\ AnswerOf(answers, current.id) = Undefined
      moves == NextIndex(currentIndex, total, AnswerOf(answers, current.id))
                 # currentIndex
  IN
  /\ view = "quiz" /\ HasCurrent
  /\ currentIndex' = NextIndex(currentIndex, total, AnswerOf(answers, current.id))
  /\ timerPending' = IF moves THEN EffectRerun(timerPending) ELSE timerPending
  /\ last' = [op |-> "next", alerted |-> alerted]
  /\ UNCHANGED << view, quizData, questions, originalQuestions, quizSettings, answers,
                  error, savedQuizData, savedQuizId, restoringQuizRef, store, now,
                  idsIssued, inflight, input, output >>

\* a handlePrev that steps back from the first question as from any other
PrevIndexUnclamped(idx) == idx - 1

\* the index handlePrev leaves (App.tsx:173)
PrevIndex(idx) == IF idx > 0 THEN idx - 1 ELSE idx

\* handlePrev() (App.tsx:172-174)
HandlePrev ==
  /\ view = "quiz" /\ HasCurrent
  /\ currentIndex' = PrevIndex(currentIndex)
  /\ timerPending' = IF currentIndex > 0 THEN EffectRerun(timerPending) ELSE timerPending
  /\ last' = [op |-> "prev"]
  /\ UNCHANGED << view, quizData, questions, originalQuestions, quizSettings, answers,
                  error, savedQuizData, savedQuizId, restoringQuizRef, store, now,
                  idsIssued, inflight, input, output >>

\* a handleFinish that refuses while questions are unanswered
FinishesWhenComplete(unanswered, ok) == ~(unanswered > 0)

\* handleFinish reaches setView("results") (App.tsx:178-186)
Finishes(unanswered, ok) == ~(unanswered > 0) \/ ok

\* handleFinish(), ok the answer to window.confirm (App.tsx:176-187)
HandleFinish(ok) ==
  LET unanswered == total - answeredCount
      asked == unanswered > 0
      finishes == Finishes(unanswered, ok)
  IN
  /\ view = "quiz" /\ HasCurrent
  /\ view' = IF finishes THEN "results" ELSE view
  /\ timerPending' = IF finishes THEN EffectRerun(timerPending) ELSE timerPending
  /\ last' = [op |-> "finish", asked |-> asked, ok |-> ok]
  /\ UNCHANGED << quizData, questions, originalQuestions, quizSettings, currentIndex,
                  answers, error, savedQuizData, savedQuizId, restoringQuizRef, store,
                  now, idsIssued, inflight, input, output >>

\* onRestart of the results view (App.tsx:396)
OnRestart ==
  /\ view = "results"
  /\ view' = "setup"
  /\ timerPending' = EffectRerun(timerPending)
  /\ last' = [op |-> "restart"]
  /\ UNCHANGED << quizData, questions, originalQuestions, quizSettings, currentIndex,
                  answers, error, savedQuizData, savedQuizId, restoringQuizRef, store,
                  now, idsIssued, inflight, input, output >>

\* handleResumeQuiz() (App.tsx:215-268); the effect finds the ref set and
\* keeps the restored progress
HandleResumeQuiz ==
  /\ view = "setup"
  /\ savedQuizData # Null
  /\ LET orderedQuestions == ResumeOrder(savedQuizData)
         reset == ResetNavigation(TRUE, ResumeIndex(savedQuizData, orderedQuestions),
                                  savedQuizData.answers)
     IN /\ quizData' = savedQuizData.quizData
        /\ originalQuestions' = savedQuizData.quizData.questions
        /\ questions' = orderedQuestions
        /\ quizSettings' = savedQuizData.settings
        /\ savedQuizId' = savedQuizData.id
        /\ restoringQuizRef' = reset.restoringQuizRef
        /\ currentIndex' = reset.currentIndex
        /\ answers' = reset.answers
  /\ view' = "quiz"
  /\ savedQuizData' = Null
  /\ timerPending' = EffectRerun(timerPending)
  /\ last' = [op |-> "resume"]
  /\ UNCHANGED << error, store, now, idsIssued, inflight, input, output >>

(***************************************************************************)
(* The asynchronous handlers.  Each awaits requests on the store; a        *)
(* request is issued (appended to inflight) by one step and completed,     *)
(* with its continuation, by a later step.  Requests on one database       *)
(* complete in the order issued.                                           *)
(***************************************************************************)
\* handleQuitQuiz() up to its await (App.tsx:189-205)
HandleQuitQuiz ==
  /\ view = "quiz" /\ HasCurrent
  /\ IF quizData = Null
     THEN /\ view' = "setup"
          /\ timerPending' = EffectRerun(timerPending)
          /\ UNCHANGED << savedQuizId, idsIssued, inflight >>
     ELSE /\ Len(inflight) < MaxInFlight
          /\ savedQuizId # Null \/ idsIssued < MaxSessions
          /\ savedQuizId' = IF savedQuizId # Null THEN savedQuizId ELSE NewId
          /\ idsIssued' = IF savedQuizId # Null THEN idsIssued ELSE idsIssued + 1
          /\ inflight' = Append(inflight,
                                [kind |-> "quit",
                                 payload |-> buildSavedQuizState(savedQuizId')])
          /\ timerPending' = IF savedQuizId = Null THEN EffectRerun(timerPending) ELSE timerPending
          /\ UNCHANGED view
  /\ last' = [op |-> "quit"]
  /\ UNCHANGED << quizData, questions, originalQuestions, quizSettings, currentIndex,
                  answers, error, savedQuizData, restoringQuizRef, store, now,
                  input, output >>

\* the bound on the requests in flight, for an auto-save: MaxInFlight of
\* them, or one more when those in flight are the deletes of
\* handleClearSavedQuiz, which the auto-save of a resumed quiz can follow
RoomForAutoSave ==
  \/ Len(inflight) < MaxInFlight
  \/ /\ Len(inflight) = MaxInFlight
     /\ \A i \in 1..Len(inflight) : inflight[i].kind = "clear"

\* the timer of the auto-save effect fires: autoSave() up to its await
\* (App.tsx:124-141)
AutoSaveTimer ==
  LET saves == quizData # Null /\ savedQuizId # Null /\ view = "quiz"
               /\ answeredCount > 0
  IN
  /\ timerPending > 0
  /\ timerPending' = timerPending - 1
  /\ IF saves
     THEN /\ RoomForAutoSave
          /\ inflight' = Append(inflight,
                                [kind |-> "autosave",
                                 payload |-> buildSavedQuizState(savedQuizId)])
     ELSE UNCHANGED inflight
  /\ last' = [op |-> "timer", saves |-> saves]
  /\ UNCHANGED << session, store, now, idsIssued, input, output >>

\* handleClearSavedQuiz() up to its first await (App.tsx:270-277): the ids
\* it will delete, one request after the other
HandleClearSavedQuiz ==
  LET ids == (IF savedQuizId # Null THEN <<savedQuizId>> ELSE << >>)
             \o <<savedQuizData.id>>
  IN
  /\ view = "setup"
  /\ savedQuizData # Null
  /\ Len(inflight) < MaxInFlight
  /\ inflight' = Append(inflight, [kind |-> "clear", id |-> Head(ids), next |-> Tail(ids)])
  /\ last' = [op |-> "clear"]
  /\ UNCHANGED << session, store, now, idsIssued, timerPending, input, output >>

\* a handleQuitQuiz without its try and catch: the rejected save ends it
ViewAfterSaveUncaught(kind, ok, shown) ==
  IF kind = "quit" /\ ok THEN "setup" ELSE shown

\* the view after the await of a save: handleQuitQuiz catches the error
\* and goes on to setView("setup") (App.tsx:203-212); autoSave sets no view
\* (App.tsx:130-134)
ViewAfterSave(kind, ok, shown) ==
  IF kind = "quit" THEN "setup" ELSE shown

\* saveQuizProgress(payload) completes (App.tsx:786-804) and autoSave or
\* handleQuitQuiz continues (App.tsx:131, 206-212); ok: the put succeeded
SaveQuizProgressDone(ok) ==
  LET req == Head(inflight) IN
  /\ inflight # << >>
  /\ req.kind \in {"autosave", "quit"}
  /\ inflight' = Tail(inflight)
  /\ store' = IF ok THEN StorePut(store, req.payload) ELSE store
  /\ savedQuizData' = IF ok THEN req.payload ELSE savedQuizData
  /\ view' = ViewAfterSave(req.kind, ok, view)
  /\ timerPending' = IF view' # view THEN EffectRerun(timerPending) ELSE timerPending
  /\ last' = [op |-> "saved", kind |-> req.kind, ok |-> ok]
  /\ UNCHANGED << quizData, questions, originalQuestions, quizSettings, currentIndex,
                  answers, error, savedQuizId, restoringQuizRef, now, idsIssued,
                  input, output >>

\* loadQuizProgress() completes (App.tsx:807-837) and loadSavedProgress
\* continues (App.tsx:108-114); ok: the database opened and the cursor ran
LoadQuizProgressDone(ok) ==
  /\ inflight # << >>
  /\ Head(inflight).kind = "load"
  /\ inflight' = Tail(inflight)
  /\ IF ok /\ DOMAIN store # {}
     THEN \E savedQuiz \in MostRecent(store) :
            /\ savedQuizData' = IF OfferedAtStartup(savedQuiz, now) THEN savedQuiz
                                ELSE savedQuizData
            /\ last' = [op |-> "loaded", ok |-> ok, found |-> savedQuiz]
     ELSE /\ UNCHANGED savedQuizData
          /\ last' = [op |-> "loaded", ok |-> ok, found |-> Null]
  /\ UNCHANGED << view, quizData, questions, originalQuestions, quizSettings,
                  currentIndex, answers, error, savedQuizId, restoringQuizRef, store,
                  now, idsIssued, timerPending, input, output >>

\* clearQuizProgress(id) completes (App.tsx:876-893) and handleClearSavedQuiz
\* continues: the next delete, or the reset of the session (App.tsx:278-289)
ClearQuizProgressDone(ok) ==
  LET req == Head(inflight) IN
  /\ inflight # << >>
  /\ req.kind = "clear"
  /\ store' = IF ok THEN StoreDelete(store, req.id) ELSE store
  /\ IF ok /\ req.next # << >>
     THEN /\ inflight' = Append(Tail(inflight),
                                [kind |-> "clear", id |-> Head(req.next),
                                 next |-> Tail(req.next)])
          /\ UNCHANGED << session, timerPending >>
     ELSE /\ inflight' = Tail(inflight)
          /\ view' = "setup"
          /\ quizData' = Null
          /\ questions' = << >>
          /\ originalQuestions' = << >>
          /\ quizSettings' = [randomOrder |-> FALSE]
          /\ currentIndex' = 0
          /\ answers' = EmptyAnswers
          /\ savedQuizId' = Null
          /\ savedQuizData' = Null
          /\ restoringQuizRef' = FALSE
          /\ timerPending' = EffectRerun(timerPending)
          /\ UNCHANGED error
  /\ last' = [op |-> "cleared", ok |-> ok, id |-> req.id,
              done |-> ~(ok /\ req.next # << >>)]
  /\ UNCHANGED << now, idsIssued, input, output >>

\* time passes, a millisecond at a time
Tick ==
  /\ now < SevenDays + MaxTime
  /\ now' = now + 1
  /\ last' = [op |-> "tick"]
  /\ UNCHANGED << session, store, idsIssued, timerPending, inflight, input, output >>

(***************************************************************************)
(* The session specification: the page after its first render, with the    *)
(* mount effects run (the timer armed, loadQuizProgress in flight) and an  *)
(* empty store.                                                            *)
(***************************************************************************)
\* the state of the component at its first render
Blank ==
  /\ view = "setup"
  /\ quizData = Null
  /\ questions = << >>
  /\ originalQuestions = << >>
  /\ quizSettings = [randomOrder |-> FALSE]
  /\ currentIndex = 0
  /\ answers = EmptyAnswers
  /\ error = Null
  /\ savedQuizId = Null
  /\ restoringQuizRef = FALSE
  /\ idsIssued = 0
  /\ timerPending = EffectRerun(0)
  /\ last = [op |-> "mount"]

Mounted ==
  /\ Blank
  /\ savedQuizData = Null
  /\ store = << >>
  /\ now = 0
  /\ inflight = << [kind |-> "load"] >>

Init ==
  /\ Mounted
  /\ input = Null
  /\ output = Null

\* the handlers behind the buttons, all but the load
UserStep ==
  \/ \E randomOrder \in BOOLEAN, js \in ShuffleChoices(Len(originalQuestions)) :
       HandleStartQuiz([randomOrder |-> randomOrder], js)
  \/ \E value \in (IF HasCurrent THEN AnswerChoices(current) ELSE {}) :
       OnSelectAnswer(value)
  \/ HandleNext
  \/ HandlePrev
  \/ \E ok \in BOOLEAN : HandleFinish(ok)
  \/ OnRestart
  \/ HandleResumeQuiz
  \/ HandleQuitQuiz
  \/ HandleClearSavedQuiz

\* the completions of the store requests
StoreStep ==
  \/ \E ok \in BOOLEAN : SaveQuizProgressDone(ok)
  \/ \E ok \in BOOLEAN : LoadQuizProgressDone(ok)
  \/ \E ok \in BOOLEAN : ClearQuizProgressDone(ok)

\* Spec: the whole page, auto-save included, over the life of MaxLoads
\* documents
Next ==
  \/ \E text \in LoadableTexts(idsIssued + 1) : idsIssued < MaxLoads /\ HandleLoadText(text)
  \/ UserStep
  \/ AutoSaveTimer
  \/ StoreStep

Spec == Init /\ [][Next]_vars

\* SpecDocs: up to MaxSessions documents loaded one after the other, by a
\* user who never pauses for the second the auto-save timer needs
NextDocs ==
  \/ \E text \in SessionTexts(idsIssued + 1) : HandleLoadText(text)
  \/ \E text \in SessionTexts(idsIssued + 1) : FileReaderOnLoad(text)
  \/ UserStep
  \/ StoreStep

SpecDocs == Init /\ [][NextDocs]_vars

(***************************************************************************)
(* SpecLive: the page with a store that does not fail and documents whose  *)
(* ids are distinct.  The timeout of the auto-save effect fires once it    *)
(* has been pending for a second, and a request on the store completes:    *)
(* both are weakly fair.  Nothing makes the user act.                      *)
(***************************************************************************)
\* the completions of the store requests, all of them successes
StoreSucceeds ==
  \/ SaveQuizProgressDone(TRUE)
  \/ LoadQuizProgressDone(TRUE)
  \/ ClearQuizProgressDone(TRUE)

NextLive ==
  \/ \E text \in SessionTexts(idsIssued + 1) : idsIssued < MaxLoads /\ HandleLoadText(text)
  \/ UserStep
  \/ AutoSaveTimer
  \/ StoreSucceeds

SpecLive ==
  /\ Init
  /\ [][NextLive]_vars
  /\ WF_vars(AutoSaveTimer)
  /\ WF_vars(StoreSucceeds)

(***************************************************************************)
(* SpecReturn: the page of Spec with a user who, sooner or later, presses  *)
(* the button that leads towards the setup screen: Start Quiz on the       *)
(* settings screen, Finish (confirmed) in the quiz, Restart on the         *)
(* results.  Whatever else happens in between is as in Spec.               *)
(***************************************************************************)
\* the buttons on the way back to the setup screen (App.tsx:372-397)
WayBack ==
  \/ \E randomOrder \in BOOLEAN, js \in ShuffleChoices(Len(originalQuestions)) :
       HandleStartQuiz([randomOrder |-> randomOrder], js)
  \/ HandleFinish(TRUE)
  \/ OnRestart

SpecReturn == Init /\ [][Next]_vars /\ WF_vars(WayBack)

(***************************************************************************)
(* SpecLoad: the page with a store that does not fail, where the texts     *)
(* pasted or read from a file are the good document of the session or one  *)
(* of the texts parseQuestionsFromText throws on.                          *)
(***************************************************************************)
NextLoad ==
  \/ \E text \in SessionTexts(idsIssued + 1) \cup FailingTexts :
       idsIssued < MaxLoads /\ HandleLoadText(text)
  \/ \E text \in FailingTexts : FileReaderOnLoad(text)
  \/ UserStep
  \/ StoreSucceeds

SpecLoad == Init /\ [][NextLoad]_vars

(***************************************************************************)
(* SpecParse: parseQuestionsFromText, or validateQuizData, applied to one   *)
(* text: a tree of up to MaxItems items after the metadata item, each item *)
(* drawn from ParseItems, one item (or more) for every branch of the       *)
(* validation loop.                                                        *)
(***************************************************************************)
ParseItems ==
  LET mc == [id |-> JStr("Q2"), type |-> JStr("mc"), prompt |-> JStr("pick B"),
             options |-> JArr(<<JStr("A"), JStr("B")>>), answer |-> JNum(1)]
      tf == [id |-> JStr("Q1"), type |-> JStr("tf"), prompt |-> JStr("statement"),
             answer |-> JBool(TRUE)]
  IN { JObj(mc), JObj(tf),
       JObj([mc EXCEPT !.answer = JNum(2)]),
       JObj([mc EXCEPT !.answer = JNum(-1)]),
       JObj([mc EXCEPT !.answer = JNumF(0, TRUE)]),
       JObj([mc EXCEPT !.answer = JStr("1")]),
       JObj([mc EXCEPT !.answer = JBool(TRUE)]),
       JObj([mc EXCEPT !.options = JStr("A, B")]),
       JObj([mc EXCEPT !.options = JArr(<<JStr("A")>>)]),
       JObj([mc EXCEPT !.options = JArr(<<JNum(1), JBool(TRUE)>>)]),
       JObj([mc EXCEPT !.id = JStr("Q1")]),
       JObj([mc EXCEPT !.id = JNum(7)]),
       JObj([mc EXCEPT !.prompt = JStr("")]),
       JObj([tf EXCEPT !.answer = JStr("true")]),
       JObj([tf EXCEPT !.answer = JNum(1)]),
       JObj([tf EXCEPT !.type = JStr("essay")]),
       JObj([id |-> JStr("Q1"), type |-> JStr("tf"), prompt |-> JStr("statement"),
             answer |-> JBool(FALSE), explanation |-> JStr("because")]),
       JObj([type |-> JStr("tf"), prompt |-> JStr("statement"), answer |-> JBool(TRUE)]),
       JObj([id |-> JStr("Q1"), answer |-> JBool(TRUE)]),
       JNull, JStr("Q1"), JArr(<< >>) }

\* the first item of a tree: a good metadata item and the bad ones
ParseMetadataItems ==
  { JObj([metadata |-> JObj([name |-> JStr("Sample")])]),
    JObj([metadata |-> JObj([name |-> JStr("Sample"), author |-> JStr("Ann")])]),
    JObj([metadata |-> JObj([author |-> JStr("Ann")])]),
    JObj([metadata |-> JObj([name |-> JNum(1)])]),
    JObj([metadata |-> JStr("Sample")]),
    JObj([name |-> JStr("Sample")]),
    JNull, JStr("Sample") }

JsonMessages == {"Unexpected token", "Expected property name", "Unexpected end"}
YamlMessages == {"bad indentation", "duplicated mapping key", "unexpected end of the stream"}

\* what the two parsers do with a text: "" for a parse, or the message of
\* the syntax error; accepted by both, by yaml.load only, by JSON.parse only
\* (an object with a duplicated key), by neither
ParseShapes ==
  {<<"", "">>}
  \cup {<<m, "">> : m \in JsonMessages}
  \cup {<<"", y>> : y \in YamlMessages}
  \cup (JsonMessages \X YamlMessages)

\* the text of a shape, v the value a parser that accepts it yields
TextOf(shape, v) ==
  [blank |-> FALSE,
   json |-> IF shape[1] = "" THEN Parsed(v) ELSE SyntaxError(shape[1]),
   yaml |-> IF shape[2] = "" THEN Parsed(v) ELSE SyntaxError(shape[2])]

\* the values that are no array
ParseScalars == {JNull, JStr("text"), JNum(1), Undefined}

\* the texts: of an array of a good first item and up to MaxItems items, of
\* an array of any first item and up to one item, of an item alone, of a
\* value that is no array, of the empty array, and the blank text
InitParse ==
  /\ Mounted
  /\ output = Null
  /\ \/ \E n \in 0..MaxItems : \E items \in [1..n -> ParseItems], shape \in ParseShapes :
          input = TextOf(shape,
                         JArr(<< JObj([metadata |-> JObj([name |-> JStr("Sample")])]) >>
                              \o items))
     \/ \E m \in ParseMetadataItems, n \in 0..1 :
          \E items \in [1..n -> ParseItems], shape \in ParseShapes :
            input = TextOf(shape, JArr(<<m>> \o items))
     \/ \E v \in ParseItems \cup ParseMetadataItems \cup ParseScalars \cup {JArr(<< >>)},
           shape \in ParseShapes :
          input = TextOf(shape, v)
     \/ input = BlankText

\* the call parseQuestionsFromText(input)
Parse ==
  /\ last.op = "mount"
  /\ output' = parseQuestionsFromText(input)
  /\ last' = [op |-> "parse"]
  /\ UNCHANGED << session, store, now, idsIssued, timerPending, inflight, input >>

\* the call validateQuizData(arr) on the array a parser made of the text
\* (utils.ts:23-24, 29-30)
Validate ==
  /\ last.op = "mount"
  /\ \E p \in {q \in {input.json, input.yaml} : q.ok} :
       /\ output' = validateQuizData(AsArray(p.value))
       /\ last' = [op |-> "validate", raw |-> AsArray(p.value)]
  /\ UNCHANGED << session, store, now, idsIssued, timerPending, inflight, input >>

NextParse == Parse \/ Validate

SpecParse == InitParse /\ [][NextParse]_vars

(***************************************************************************)
(* SpecResume: handleResumeQuiz applied to one snapshot offered for        *)
(* resume.  The snapshot was written for a document of                     *)
(* ResumePoolSize questions; its document now holds any non-empty part of  *)
(* them, and its saved order names any of them.                            *)
(***************************************************************************)
ResumePoolSize == NumQuestions + 1

ResumePool == [i \in 1..ResumePoolSize |-> PoolQuestion(i)]

\* the questions of a document with the second question of the pool under
\* the id of the first: the validation does not compare ids
WithSharedId(doc) ==
  [i \in 1..Len(doc) |->
     IF doc[i].id = QId(2) THEN [doc[i] EXCEPT !.id = QId(1)] ELSE doc[i]]

\* the documents: the questions of the pool that are left, in pool order,
\* with their own ids or with a shared one
ResumeDocuments ==
  LET left == {SelectSeq(ResumePool, LAMBDA q : q.id \in kept) :
                 kept \in (SUBSET {QId(i) : i \in 1..ResumePoolSize}) \ {{}}}
  IN left \cup {WithSharedId(doc) : doc \in left}

\* the saved orders: the sequences without repetition of ids of the pool,
\* and the order of a document with a shared id
ResumeOrders ==
  UNION {{f \in [1..n -> {QId(i) : i \in 1..ResumePoolSize}] :
            \A i, j \in 1..n : f[i] = f[j] => i = j} : n \in 0..ResumePoolSize}
  \cup {<< QId(1), QId(1) >>}

\* the snapshot of a document, a saved order, with or without the saved
\* questions, the id and index of the question shown and the answers
ResumeSnapshot(doc, order, withQuestions, cq, idx, ans) ==
  [id |-> [sid |-> 1],
   quizData |-> [metadata |-> [name |-> "Sample", author |-> Undefined],
                 questions |-> doc],
   settings |-> [randomOrder |-> TRUE],
   answers |-> ans,
   currentIndex |-> idx,
   timestamp |-> 0,
   completed |-> FALSE,
   questionOrder |-> order,
   currentQuestionId |-> cq,
   orderedQuestions |-> IF withQuestions
                        THEN IF order = << >> THEN ResumePool
                             ELSE [i \in 1..Len(order) |-> ById(ResumePool, order[i])]
                        ELSE << >>]

InitResume ==
  /\ Blank
  /\ \E doc \in ResumeDocuments, order \in ResumeOrders, withQuestions \in BOOLEAN,
        cq \in {JNull} \cup {JStr(QId(i)) : i \in 1..ResumePoolSize},
        idx \in {0, ResumePoolSize - 1, ResumePoolSize + 2},
        ans \in {EmptyAnswers, [k \in {QId(1)} |-> JBool(TRUE)]} :
       input = ResumeSnapshot(doc, order, withQuestions, cq, idx, ans)
  /\ savedQuizData = input
  /\ store = << >>
  /\ now = 0
  /\ inflight = << >>
  /\ output = Null

SpecResume == InitResume /\ [][HandleResumeQuiz]_vars

(***************************************************************************)
(* SpecStartup: the mount of the page over a store that holds up to two    *)
(* snapshots written at times 0..MaxTime, the clock running from one       *)
(* millisecond before SevenDays to MaxTime milliseconds after it.          *)
(***************************************************************************)
StartupRecord(n, time, completed) ==
  LET doc == PoolDocument(1)
  IN [id |-> [sid |-> n],
      quizData |-> doc,
      settings |-> [randomOrder |-> FALSE],
      answers |-> [k \in {doc.questions[i].id :
                            i \in 1..(IF completed THEN Len(doc.questions) ELSE 1)}
                    |-> JBool(TRUE)],
      currentIndex |-> 0,
      timestamp |-> time,
      completed |-> completed,
      questionOrder |-> Ids(doc.questions),
      currentQuestionId |-> JStr(doc.questions[1].id),
      orderedQuestions |-> doc.questions]

StartupStores ==
  UNION {{st \in [{[sid |-> n] : n \in ns} ->
                    {StartupRecord(n, time, completed) :
                       n \in ns, time \in 0..MaxTime, completed \in BOOLEAN}] :
            \A k \in DOMAIN st : st[k].id = k} : ns \in SUBSET {1, 2}}

InitStartup ==
  /\ Blank
  /\ savedQuizData = Null
  /\ store \in StartupStores
  /\ now = SevenDays - 1
  /\ inflight = << [kind |-> "load"] >>
  /\ input = Null
  /\ output = Null

NextStartup ==
  \/ Tick
  \/ \E ok \in BOOLEAN : LoadQuizProgressDone(ok)

SpecStartup == InitStartup /\ [][NextStartup]_vars

(***************************************************************************)
(* SpecScore: ResultsView rendered once with props drawn from the          *)
(* questions of the resume pool, in every order without repetition, and    *)
(* from the answers that give every id a value of either type or none.     *)
(***************************************************************************)
\* the values an entry of answers can hold
ScoreValues ==
  {Undefined, JBool(TRUE), JBool(FALSE)} \cup {JNum(n) : n \in 0..NumQuestions}

InitScore ==
  /\ Blank
  /\ \E order \in ResumeOrders \ {<< >>},
        ans \in [{QId(i) : i \in 1..ResumePoolSize} -> ScoreValues] :
       input = [questions |-> [i \in 1..Len(order) |-> ById(ResumePool, order[i])],
                answers |-> ans]
  /\ savedQuizData = Null
  /\ store = << >>
  /\ now = 0
  /\ inflight = << >>
  /\ output = Null

\* the render of <ResultsView questions answers />
RenderResults ==
  /\ last.op = "mount"
  /\ output' = ResultsView(input.questions, input.answers)
  /\ last' = [op |-> "results"]
  /\ UNCHANGED << session, store, now, idsIssued, timerPending, inflight, input >>

SpecScore == InitScore /\ [][RenderResults]_vars

(***************************************************************************)
(* SpecCsv: exportAsCSV applied to one result whose texts are drawn from   *)
(* the texts of up to MaxCell characters out of a letter, the double quote *)
(* and the comma, and the prompt He said "hi".                             *)
(***************************************************************************)
CsvTexts ==
  UNION {[1..n -> {"a", DQ, Comma}] : n \in 0..MaxCell}

HeSaidHi == <<"He said ", DQ, "hi", DQ>>

InitCsv ==
  /\ Blank
  /\ \E id \in CsvTexts \ {<< >>}, text \in CsvTexts \cup {HeSaidHi}, user \in CsvTexts,
        correct \in {<<"a">>, <<"a", DQ>>}, isCorrect \in BOOLEAN,
        explanation \in {Undefined} \cup {JStr(e) : e \in {<< >>, <<"a">>, <<DQ, Comma>>}} :
       input = << [questionNumber |-> 1, questionId |-> id, questionText |-> text,
                   questionType |-> "mc", userAnswer |-> user,
                   correctAnswer |-> correct, isCorrect |-> isCorrect,
                   explanation |-> explanation] >>
  /\ savedQuizData = Null
  /\ store = << >>
  /\ now = 0
  /\ inflight = << >>
  /\ output = Null

\* the call exportAsCSV(input)
ExportCsv ==
  /\ last.op = "mount"
  /\ output' = exportAsCSV(input)
  /\ last' = [op |-> "csv"]
  /\ UNCHANGED << session, store, now, idsIssued, timerPending, inflight, input >>

SpecCsv == InitCsv /\ [][ExportCsv]_vars

(***************************************************************************)
(* The properties.                                                         *)
(***************************************************************************)
\* the trees the parsers yield for a text
TreesOf(text) ==
  {AsArray(p.value) : p \in {q \in {text.json, text.yaml} : q.ok}}

\* C1: parseQuestionsFromText throws the generic parse-failure error only
\* when the text parses neither as JSON nor as YAML; when the text parses in
\* a format and every tree it yields violates the schema, the error thrown is
\* the one validateQuizData throws for a tree, unchanged.
C1_ValidationErrorSurfaces ==
  (last.op = "parse" /\ ~input.blank) =>
    /\ (~output.ok /\ output.kind = "failed to parse file")
         => (~input.json.ok /\ ~input.yaml.ok)
    /\ (TreesOf(input) # {} /\ \A tree \in TreesOf(input) : ~validateQuizData(tree).ok)
         => output \in {validateQuizData(tree) : tree \in TreesOf(input)}

\* C2: handleNext on a current question that has no answer changes neither
\* currentIndex nor the phase, the answers or the question order.
C2_NextNeedsAnswer ==
  [][(last'.op = "next" /\ AnswerOf(answers, current.id) = Undefined)
       => UNCHANGED << currentIndex, view, answers, questions >>]_vars

\* handleNext was refused on a question before the last one
C2_Witness ==
  /\ last.op = "next" /\ last.alerted
  /\ view = "quiz" /\ currentIndex < total - 1
  /\ AnswerOf(answers, current.id) = Undefined

\* the ids of a document, and of the saved order that are gone from it
DocIds(saved) == {saved.quizData.questions[i].id : i \in 1..Len(saved.quizData.questions)}
Removed(saved) ==
  {saved.questionOrder[i] : i \in 1..Len(saved.questionOrder)} \ DocIds(saved)

\* the resumed order holds only ids of the document, the saved ones that are
\* left in their saved relative order
StableUnderShrinkage(saved) ==
  /\ \A i \in 1..Len(questions) : questions[i].id \in DocIds(saved)
  /\ SelectSeq(Ids(questions),
               LAMBDA id : \E i \in 1..Len(saved.questionOrder) : saved.questionOrder[i] = id)
     = SelectSeq(saved.questionOrder, LAMBDA id : id \in DocIds(saved))

\* C3 as stated: handleResumeQuiz on a snapshot whose saved order names ids
\* that are gone from its document yields an order of ids of the document
\* only, the surviving ids in their saved relative order, for every
\* non-empty set of removed ids.
C3_ResumeStableForEveryRemoval ==
  (last.op = "resume" /\ Removed(input) # {}) => StableUnderShrinkage(input)

\* C3 amended: the same, for every non-empty set of removed ids that leaves
\* a saved id in the document; when no saved id is left the order is the
\* snapshot's orderedQuestions as saved, or the document's order when the
\* snapshot has none.
C3_ResumeStableWhenAnIdSurvives ==
  (last.op = "resume" /\ Removed(input) # {}) =>
    IF \E i \in 1..Len(input.questionOrder) : input.questionOrder[i] \in DocIds(input)
    THEN StableUnderShrinkage(input)
    ELSE questions = IF input.orderedQuestions # << >> THEN input.orderedQuestions
                     ELSE input.quizData.questions

\* a resume after two saved ids were removed and one was left, behind a
\* removed one in the saved order
C3_Witness ==
  /\ last.op = "resume"
  /\ Cardinality(Removed(input)) = 2
  /\ Len(input.questionOrder) = 3
  /\ input.questionOrder[3] \in DocIds(input)
  /\ input.orderedQuestions # << >>
  /\ Len(questions) = 1

\* C4: after a start with randomOrder, the results list the questions in
\* the order of the loaded document: result number i is question i of the
\* document.
C4_ResultsInDocumentOrder ==
  (view = "results" /\ quizSettings.randomOrder) =>
    /\ Len(exportResults) = Len(quizData.questions)
    /\ \A i \in 1..Len(exportResults) :
         /\ exportResults[i].questionNumber = i
         /\ exportResults[i].questionId = quizData.questions[i].id

\* C5 as stated: at startup the most recent stored snapshot is offered
\* (savedQuizData is set to it) if and only if it is not marked completed
\* and not older than seven days.
C5_OfferedIffNotOlderThanSevenDays ==
  (last.op = "loaded" /\ last.found # Null) =>
    ((savedQuizData = last.found)
       <=> (~last.found.completed /\ now - last.found.timestamp <= SevenDays))

\* C5 amended: at startup the snapshot loadQuizProgress yields, one with
\* the greatest timestamp, is offered if and only if it is not marked
\* completed and less than seven days old: a snapshot of exactly seven days
\* is not offered; nothing else is offered, and nothing when the load fails.
C5_OfferedIffYoungerThanSevenDays ==
  last.op = "loaded" =>
    IF last.found # Null
    THEN /\ last.found \in MostRecent(store)
         /\ savedQuizData \in {Null, last.found}
         /\ (savedQuizData = last.found)
              <=> (~last.found.completed /\ now - last.found.timestamp < SevenDays)
    ELSE savedQuizData = Null

\* the more recent of two snapshots, one millisecond short of seven days
\* old, was offered
C5_Witness ==
  /\ last.op = "loaded" /\ last.found # Null
  /\ savedQuizData = last.found
  /\ Cardinality(DOMAIN store) = 2
  /\ now - last.found.timestamp = SevenDays - 1
  /\ \E k \in DOMAIN store : store[k].timestamp < last.found.timestamp

\* C6: handleQuitQuiz first issues the save of a snapshot of the session
\* (document, settings, answers, question order, current index, session id)
\* and leaves the phase alone; the phase becomes setup in the step that ends
\* the save, and when the save succeeded the store holds the snapshot under
\* the session id and savedQuizData, which the setup screen offers, is it.
C6_QuitSavesFirst ==
  [][/\ (last'.op = "quit" /\ quizData # Null) =>
          /\ view' = view
          /\ Len(inflight') = Len(inflight) + 1
          /\ inflight'[Len(inflight')].kind = "quit"
          /\ LET p == inflight'[Len(inflight')].payload
             IN /\ p.quizData = quizData /\ p.settings = quizSettings
                /\ p.answers = answers /\ p.questionOrder = Ids(questions)
                /\ p.currentIndex = currentIndex
                /\ p.id = savedQuizId' /\ p.id # Null
                /\ (savedQuizId = Null \/ p.id = savedQuizId)
     /\ (last'.op = "saved" /\ last'.kind = "quit") =>
          /\ view' = "setup"
          /\ LET p == Head(inflight).payload
             IN IF last'.ok
                THEN /\ p.id \in DOMAIN store' /\ store'[p.id] = p
                     /\ savedQuizData' = p
                ELSE store' = store /\ savedQuizData' = savedQuizData
    ]_vars

\* a quit whose save succeeded: the setup screen offers the snapshot, with
\* the answers given
C6_Witness ==
  /\ last.op = "saved" /\ last.kind = "quit" /\ last.ok
  /\ view = "setup"
  /\ savedQuizData # Null
  /\ savedQuizData.id \in DOMAIN store /\ store[savedQuizData.id] = savedQuizData
  /\ CountAnswered(savedQuizData.answers) > 0

\* C7: handleFinish with every question answered sets the phase to results
\* without asking; with a question unanswered it sets the phase to results
\* exactly when the confirmation is accepted, and a declined confirmation
\* leaves the phase, the answers, the index and the order unchanged.
C7_FinishConfirmation ==
  [][(last'.op = "finish") =>
       LET allAnswered ==
             \A i \in 1..Len(questions) :
               AnswerOf(answers, questions[i].id) # Undefined
       IN IF allAnswered
          THEN ~last'.asked /\ view' = "results"
          ELSE /\ last'.asked
               /\ (view' = "results") = last'.ok
               /\ (~last'.ok => UNCHANGED << view, answers, currentIndex, questions >>)
    ]_vars

\* the snapshots in the store, offered, or on their way to the store
Snapshots ==
  {store[k] : k \in DOMAIN store}
  \cup (IF savedQuizData # Null THEN {savedQuizData} ELSE {})
  \cup {inflight[i].payload :
          i \in {j \in 1..Len(inflight) : inflight[j].kind \in {"quit", "autosave"}}}

\* C8: a successful handleLoadText leaves the new document in quizData, its
\* questions in document order, no answers, currentIndex 0, the phase
\* settings and a session id that neither the session before nor any
\* snapshot carries, whatever the session before held.
C8_LoadStartsAfresh ==
  [][(last'.op = "load" /\ last'.ok) =>
       /\ quizData' \in {PoolDocument(idsIssued + 1), DuplicateIdDocument}
       /\ questions' = quizData'.questions
       /\ originalQuestions' = quizData'.questions
       /\ answers' = EmptyAnswers
       /\ currentIndex' = 0
       /\ view' = "settings"
       /\ savedQuizId' # Null /\ savedQuizId' # savedQuizId
       /\ \A s \in Snapshots : s.id # savedQuizId'
    ]_vars

\* a second document loaded after a session that was quit past its first
\* question with answers given
C8_Witness ==
  /\ last.op = "load" /\ last.ok
  /\ idsIssued >= 2
  /\ savedQuizData # Null
  /\ savedQuizData.id # savedQuizId
  /\ savedQuizData.currentIndex > 0
  /\ CountAnswered(savedQuizData.answers) > 0
  /\ answers = EmptyAnswers /\ currentIndex = 0

\* the number of occurrences of x in a sequence
Count(seq, x) == Cardinality({i \in 1..Len(seq) : seq[i] = x})

\* b is a rearrangement of a
IsPermutation(a, b) ==
  /\ Len(a) = Len(b)
  /\ \A i \in 1..Len(a) : Count(a, a[i]) = Count(b, a[i])

\* all the rearrangements of a sequence
Rearrangements(seq) ==
  {[i \in 1..Len(seq) |-> seq[f[i]]] :
     f \in {g \in [1..Len(seq) -> 1..Len(seq)] :
              \A i, j \in 1..Len(seq) : g[i] = g[j] => i = j}}

\* C9: handleStartQuiz leaves in questions a permutation of the loaded
\* document's questions, the document order itself when randomOrder is
\* false, with the phase quiz and currentIndex 0; with randomOrder the draws
\* of the shuffle can produce every permutation.
C9_StartQuizOrder ==
  /\ last.op = "start" =>
       /\ view = "quiz" /\ currentIndex = 0
       /\ IsPermutation(quizData.questions, questions)
       /\ (~last.randomOrder => questions = quizData.questions)
  /\ view = "settings" =>
       {StartOrder(originalQuestions, [randomOrder |-> TRUE], js) :
          js \in ShuffleChoices(Len(originalQuestions))}
       = Rearrangements(quizData.questions)

\* a start with randomOrder that left another order than the document's
C9_Witness ==
  /\ last.op = "start" /\ last.randomOrder
  /\ questions # quizData.questions
  /\ currentIndex = 0 /\ view = "quiz"

\* C10: handleStartQuiz chooses the order from the document order without
\* changing originalQuestions; afterwards the order of the ids of questions
\* changes only by a load, a start, a resume or the clearing of the session;
\* a resume restores the order of ids saved, and every snapshot of the
\* session in progress carries the order in which its questions are
\* presented.
C10_OrderChosenOnce ==
  /\ [][/\ (last'.op = "start") =>
              /\ originalQuestions = quizData.questions
              /\ UNCHANGED << originalQuestions, quizData >>
        /\ (Ids(questions') # Ids(questions)) =>
              last'.op \in {"load", "start", "resume", "cleared"}
        /\ (last'.op = "resume") =>
              Ids(questions') = savedQuizData.questionOrder
       ]_vars
  /\ [](\A s \in Snapshots :
          s.id = savedQuizId => s.questionOrder = Ids(questions))

\* a resume that restored a shuffled order, after answers were given
C10_Witness ==
  /\ last.op = "resume"
  /\ quizSettings.randomOrder
  /\ questions # originalQuestions
  /\ answers # EmptyAnswers

\* C11: onSelectAnswer stores the value for the current question and leaves
\* currentIndex, the phase, the question order and the answer of every
\* other question as they were; the value replaces an earlier one, and
\* storing it a second time changes nothing.
C11_AnswerTouchesCurrentOnly ==
  [][(last'.op = "answer") =>
       /\ UNCHANGED << currentIndex, view, questions >>
       /\ AnswerOf(answers', current.id) = last'.value
       /\ \A i \in 1..Len(questions) :
            i # currentIndex + 1 =>
              AnswerOf(answers', questions[i].id) = AnswerOf(answers, questions[i].id)
       /\ WithAnswer(answers', current.id, last'.value) = answers'
    ]_vars

\* C12: the completed flag of every snapshot written by buildSavedQuizState
\* is true exactly when the snapshot's question order is not empty and
\* every question of the order has a defined answer in the snapshot.
C12_CompletedIffAllAnswered ==
  \A s \in Snapshots :
    s.completed <=>
      /\ Len(s.questionOrder) > 0
      /\ \A i \in 1..Len(s.questionOrder) :
           AnswerOf(s.answers, s.questionOrder[i]) # Undefined

\* C13: the phase changes only by a load (setup to settings), a start
\* (settings to quiz), a finish (quiz to results), a quit (quiz to setup,
\* in the step that ends its save), a restart (results to setup) or a
\* resume (setup to quiz).
C13_PhaseTransitions ==
  [][(view' # view) =>
       \/ last'.op = "load" /\ view = "setup" /\ view' = "settings"
       \/ last'.op = "start" /\ view = "settings" /\ view' = "quiz"
       \/ last'.op = "finish" /\ view = "quiz" /\ view' = "results"
       \/ /\ last'.op = "quit" \/ (last'.op = "saved" /\ last'.kind = "quit")
          /\ view = "quiz" /\ view' = "setup"
       \/ last'.op = "restart" /\ view = "results" /\ view' = "setup"
       \/ last'.op = "resume" /\ view = "setup" /\ view' = "quiz"
    ]_vars

\* the structural problems of an item after the metadata item, by the name
\* of the message that reports each
Problems(q) ==
  IF ~Truthy(q) \/ TypeOf(q) # "object" THEN {"must be an object"}
  ELSE
    LET type == Prop(q, "type")
        options == Prop(q, "options")
        answer == Prop(q, "answer")
    IN (IF \E f \in {"id", "type", "prompt"} : ~Truthy(Prop(q, f))
        THEN {"missing required fields"} ELSE {})
       \cup (IF Truthy(type) /\ type \notin {JStr("mc"), JStr("tf")}
             THEN {"unknown question type"} ELSE {})
       \cup (IF type = JStr("tf") /\ TypeOf(answer) # "boolean"
             THEN {"'answer' must be true or false"} ELSE {})
       \cup (IF type = JStr("mc") /\ options.t # "array"
             THEN {"'options' must be an array"} ELSE {})
       \cup (IF type = JStr("mc") /\ options.t = "array" /\ Len(options.a) < 2
             THEN {"must have at least 2 options"} ELSE {})
       \cup (IF type = JStr("mc") /\ TypeOf(answer) # "number"
             THEN {"'answer' must be a number (index)"} ELSE {})
       \cup (IF /\ type = JStr("mc") /\ options.t = "array"
                /\ TypeOf(answer) = "number"
                /\ (answer.n < 0 \/ answer.n >= Len(options.a))
             THEN {"answer index is out of range"} ELSE {})

\* C14: when the metadata item passes, validateQuizData throws an error
\* that reports every problem of every item after it: each problem of item
\* number n appears as a message for question n, whatever the other items
\* hold.
C14_EveryProblemReported ==
  (last.op = "validate" /\ MetadataErrors(last.raw[1]) = << >>) =>
    \A n \in 1..(Len(last.raw) - 1) :
      \A problem \in Problems(last.raw[n + 1]) :
        /\ ~output.ok
        /\ \E k \in 1..Len(output.errors) :
             /\ output.errors[k].msg = problem
             /\ output.errors[k].num = n

\* C15: when the metadata item passes, validateQuizData throws for every
\* array that holds an mc item whose answer is a number below 0 or at least
\* the number of its options, and the error has a message for that question
\* saying that the answer index is out of range, with the range 0 to the
\* number of options less one.
C15_OutOfRangeRejected ==
  (last.op = "validate" /\ MetadataErrors(last.raw[1]) = << >>) =>
    \A n \in 1..(Len(last.raw) - 1) :
      "answer index is out of range" \in Problems(last.raw[n + 1]) =>
        /\ ~output.ok
        /\ \E k \in 1..Len(output.errors) :
             /\ output.errors[k].msg = "answer index is out of range"
             /\ output.errors[k].num = n
             /\ output.errors[k].answer = Prop(last.raw[n + 1], "answer")
             /\ output.errors[k].validFrom = 0
             /\ output.errors[k].validTo = Len(Prop(last.raw[n + 1], "options").a) - 1

\* C16: generateQuizResults, and the rows of ResultsView, mark a question
\* correct exactly when its stored answer is a number for an mc question, a
\* boolean for a tf question, and equals the question's answer; no answer
\* and an answer of the other type are never correct.
C16_CorrectIffTypedEqual ==
  last.op = "results" =>
    \A i \in 1..Len(input.questions) :
      LET q == input.questions[i]
          user == AnswerOf(input.answers, q.id)
          required == IF q.type = "mc" THEN "number" ELSE "boolean"
          marked == output.exportResults[i].isCorrect
      IN /\ marked <=> (user.t = required /\ user = q.answer)
         /\ output.rows[i].isCorrect = marked
         /\ user.t # required => ~marked

\* an mc question whose answer is 1 holds the boolean true and is not
\* correct, beside a question answered correctly
C16_Witness ==
  /\ last.op = "results"
  /\ \E i, j \in 1..Len(input.questions) :
       /\ input.questions[i].type = "mc"
       /\ input.questions[i].answer = JNum(1)
       /\ AnswerOf(input.answers, input.questions[i].id) = JBool(TRUE)
       /\ ~output.exportResults[i].isCorrect
       /\ output.exportResults[j].isCorrect

\* C17: the score line counts the results with isCorrect true out of the
\* number of questions, with the percentage the integer nearest to
\* 100 * correct / total (halves up); when every question holds its own
\* answer the score is 100% and every isCorrect is true; the document Q1 tf
\* true, Q2 mc [A, B] 1 with answers Q1 true, Q2 0 gives 1 / 2 (50%), Q1
\* correct, Q2 incorrect and "B" as the correct answer of Q2.
C17_Score ==
  last.op = "results" =>
    LET qs == input.questions
        results == output.exportResults
    IN /\ output.total = Len(qs)
       /\ output.correctCount = Cardinality({i \in 1..Len(qs) : results[i].isCorrect})
       /\ 2 * output.pct * output.total - output.total <= 200 * output.correctCount
       /\ 200 * output.correctCount < 2 * output.pct * output.total + output.total
       /\ (\A i \in 1..Len(qs) : AnswerOf(input.answers, qs[i].id) = qs[i].answer)
            => (output.pct = 100 /\ \A i \in 1..Len(qs) : results[i].isCorrect)
       /\ ( /\ qs = << PoolQuestion(1), PoolQuestion(2) >>
            /\ AnswerOf(input.answers, "Q1") = JBool(TRUE)
            /\ AnswerOf(input.answers, "Q2") = JNum(0) )
            => /\ output.correctCount = 1 /\ output.total = 2 /\ output.pct = 50
               /\ results[1].isCorrect /\ ~results[2].isCorrect
               /\ results[2].correctAnswer = JStr("B")

\* the scenario of the two questions, rendered
C17_Witness ==
  /\ last.op = "results"
  /\ input.questions = << PoolQuestion(1), PoolQuestion(2) >>
  /\ AnswerOf(input.answers, "Q1") = JBool(TRUE)
  /\ AnswerOf(input.answers, "Q2") = JNum(0)
  /\ \A k \in DOMAIN input.answers \ {"Q1", "Q2"} : input.answers[k] = Undefined
  /\ output.correctCount = 1 /\ output.pct = 50
  /\ output.exportResults[2].correctAnswer = JStr("B")

\* a reader of CSV: a field that starts with a double quote runs to its
\* closing quote, a doubled quote inside it standing for one quote; any
\* other field runs to the next comma or line break and holds no quote.
\* The result is the sequence of records read, or failure.
RECURSIVE CsvRead(_, _, _, _, _, _)
CsvRead(chars, i, mode, field, row, rows) ==
  IF i > Len(chars)
  THEN IF mode = "quoted" THEN [ok |-> FALSE]
       ELSE [ok |-> TRUE, rows |-> Append(rows, Append(row, field))]
  ELSE
    LET c == chars[i]
        nextField == CsvRead(chars, i + 1, "start", << >>, Append(row, field), rows)
        nextRecord == CsvRead(chars, i + 1, "start", << >>, << >>,
                              Append(rows, Append(row, field)))
        more(m, f) == CsvRead(chars, i + 1, m, f, row, rows)
    IN CASE mode = "start" ->
              IF c = DQ THEN more("quoted", << >>)
              ELSE IF c = Comma THEN nextField
              ELSE IF c = LineBreak THEN nextRecord
              ELSE more("plain", <<c>>)
         [] mode = "plain" ->
              IF c = DQ THEN [ok |-> FALSE]
              ELSE IF c = Comma THEN nextField
              ELSE IF c = LineBreak THEN nextRecord
              ELSE more("plain", Append(field, c))
         [] mode = "quoted" ->
              IF c = DQ THEN more("closing", field)
              ELSE more("quoted", Append(field, c))
         [] OTHER ->
              IF c = DQ THEN more("quoted", Append(field, DQ))
              ELSE IF c = Comma THEN nextField
              ELSE IF c = LineBreak THEN nextRecord
              ELSE [ok |-> FALSE]

\* s is a run of consecutive characters of t
Within(s, t) ==
  \E k \in 0..(Len(t) - Len(s)) : \A i \in 1..Len(s) : t[k + i] = s[i]

\* C18: the CSV of exportAsCSV reads back as the header and one record of 8
\* fields for every result, the id, the question text, the user answer, the
\* correct answer and the explanation being the texts of the result: each
\* was written between double quotes with its own quotes doubled; the
\* prompt He said "hi" is written "He said ""hi""".
C18_CsvQuoting ==
  last.op = "csv" =>
    LET read == CsvRead(output, 1, "start", << >>, << >>, << >>)
    IN /\ read.ok
       /\ Len(read.rows) = 1 + Len(input)
       /\ \A k \in 1..Len(input) :
            LET record == read.rows[k + 1] IN
            /\ Len(record) = Len(CsvHeaders)
            /\ record[2] = input[k].questionId
            /\ record[3] = input[k].questionText
            /\ record[5] = input[k].userAnswer
            /\ record[6] = input[k].correctAnswer
            /\ record[8] = IF input[k].explanation = Undefined THEN << >>
                           ELSE input[k].explanation.s
            /\ input[k].questionText = HeSaidHi =>
                 Within(<<Comma, DQ, "He said ", DQ, DQ, "hi", DQ, DQ, DQ, Comma>>, output)

\* C19: parseQuestionsFromText on a text that is empty or holds only
\* whitespace throws the "File is empty" error, whatever the parsers would
\* make of the text, and not the generic parse error.
C19_EmptyTextFailsFast ==
  (last.op = "parse" /\ input.blank) =>
    /\ output = Thrown("file is empty", << >>)
    /\ output.kind # "failed to parse file"

\* the blank text, which yaml.load accepts, was parsed
C19_Witness ==
  /\ last.op = "parse"
  /\ input.blank /\ input.yaml.ok
  /\ ~output.ok /\ output.kind = "file is empty"

TypedFor(q, v) ==
  IF q.type = "mc"
  THEN TypeOf(v) = "number" /\ ~v.frac /\ v.n \in 0..(Len(q.options) - 1)
  ELSE TypeOf(v) = "boolean"

\* C21: in every reachable state each defined entry of answers has the type
\* of the variant of the question that carries that id: a valid option
\* index for an mc question, a boolean for a tf question.
C21_AnswersTyped ==
  \A i \in 1..Len(questions) :
    AnswerOf(answers, questions[i].id) # Undefined =>
      TypedFor(questions[i], AnswerOf(answers, questions[i].id))

\* C22: every document accepted by validateQuizData has question ids that
\* are non-empty and pairwise distinct after coercion to strings.
C22_IdsDistinct ==
  (last.op \in {"parse", "validate"} /\ output.ok) =>
    LET qs == output.data.questions IN
    /\ \A i \in 1..Len(qs) : qs[i].id # ""
    /\ \A i, j \in 1..Len(qs) : qs[i].id = qs[j].id => i = j

\* C23: every question of a document accepted by validateQuizData satisfies
\* its variant: an mc question has at least 2 options and an answer that is
\* a whole-number index of one of them, so that its correct-answer label is
\* one of its options; a tf question has a boolean answer; no other type
\* occurs.
C23_QuestionsWellTyped ==
  (last.op \in {"parse", "validate"} /\ output.ok) =>
    \A i \in 1..Len(output.data.questions) :
      LET q == output.data.questions[i] IN
      /\ q.type \in {"mc", "tf"}
      /\ q.type = "mc" =>
           /\ Len(q.options) >= 2
           /\ TypedFor(q, q.answer)
           /\ \E k \in 1..Len(q.options) : formatCorrectAnswer(q) = q.options[k]
      /\ q.type = "tf" => TypeOf(q.answer) = "boolean"

\* C24: restart (results to setup through onRestart) discards the finished
\* session: in the state it leaves, the setup screen offers no snapshot of
\* that session for resume.
C24_RestartDiscards ==
  [][(last'.op = "restart") =>
       (savedQuizData' = Null \/ savedQuizData'.id # savedQuizId)
    ]_vars

\* the state the auto-save effect depends on (App.tsx:141); answeredCount
\* and total are functions of answers and questions
AutoSaveDeps == << quizData, savedQuizId, answers, currentIndex, view, quizSettings,
                   questions >>

\* C26: at any time at most one auto-save is pending: every change of the
\* session state the effect depends on cancels the pending timeout and
\* leaves exactly one, and the timeout that fires leaves none and issues
\* at most one save, of the state at that moment; so a burst of k changes
\* ends in one save of the latest state.
C26_OnePendingAutoSave ==
  /\ [](timerPending \in {0, 1})
  /\ [][/\ (AutoSaveDeps' # AutoSaveDeps) => (timerPending' = 1)
        /\ (last'.op = "timer") =>
             /\ timerPending' = 0
             /\ inflight' = IF last'.saves
                            THEN Append(inflight,
                                        [kind |-> "autosave",
                                         payload |-> buildSavedQuizState(savedQuizId)])
                            ELSE inflight
       ]_vars

\* the timeout fires after a burst of changes (two answers and the move
\* between them) that no save interrupted, and issues the one save
C26_Witness ==
  /\ last.op = "timer" /\ last.saves
  /\ CountAnswered(answers) = 2
  /\ store = << >> /\ savedQuizData = Null
  /\ Len(inflight) = 1 /\ inflight[1].payload.answers = answers

\* the ids and the values an answer of the sessions can have
AnswerIds == {QId(i) : i \in 1..NumQuestions}
AnswerValues == UNION {AnswerChoices(PoolQuestion(i)) : i \in 1..NumQuestions}

\* C25: every answer recorded in the active phase is eventually persisted
\* when the store does not fail: from the moment answers holds the value v
\* for a question, a record of the store comes to hold v for that question,
\* unless the user replaces or resets the answer first.
C25_AnswerEventuallyPersisted ==
  \A id \in AnswerIds, v \in AnswerValues :
    (last.op = "answer" /\ AnswerOf(answers, id) = v)
      ~> \/ AnswerOf(answers, id) # v
         \/ \E k \in DOMAIN store : AnswerOf(store[k].answers, id) = v

\* C27: quit followed by resume is a round trip: handleResumeQuiz applied
\* to a snapshot that buildSavedQuizState took of an active state restores
\* the document, the settings, the question order, the answers, the current
\* index and the session id the snapshot recorded, with phase active.
C27_QuitResumeRoundTrip ==
  [][(last'.op = "resume") =>
       /\ view' = "quiz"
       /\ quizData' = savedQuizData.quizData
       /\ quizSettings' = savedQuizData.settings
       /\ questions' = savedQuizData.orderedQuestions
       /\ answers' = savedQuizData.answers
       /\ currentIndex' = savedQuizData.currentIndex
       /\ savedQuizId' = savedQuizData.id
    ]_vars

\* the ids of the document of a snapshot that its saved order does not name
NewIds(saved) ==
  DocIds(saved) \ {SavedOrderIds(saved)[i] : i \in 1..Len(SavedOrderIds(saved))}

\* the resumed order is the saved ids that the document still holds, in
\* their saved order, then the ids new to the snapshot, in document order
KnownFirstNewLast(saved) ==
  Ids(questions) =
    SelectSeq(SavedOrderIds(saved), LAMBDA id : id \in DocIds(saved))
    \o SelectSeq(Ids(saved.quizData.questions), LAMBDA id : id \in NewIds(saved))

\* the resumed order holds every question of the document exactly once
EveryQuestionOnce(saved) ==
  /\ Len(questions) = Len(saved.quizData.questions)
  /\ \A i \in 1..Len(saved.quizData.questions) :
       Count(questions, saved.quizData.questions[i]) = 1

\* no two questions of the document, and no two places of the saved order,
\* have the same id
DistinctIds(saved) ==
  /\ \A i, j \in 1..Len(saved.quizData.questions) :
       saved.quizData.questions[i].id = saved.quizData.questions[j].id => i = j
  /\ \A i, j \in 1..Len(SavedOrderIds(saved)) :
       SavedOrderIds(saved)[i] = SavedOrderIds(saved)[j] => i = j

\* a saved id is still an id of the document
SomeSavedIdKnown(saved) ==
  \E i \in 1..Len(SavedOrderIds(saved)) : SavedOrderIds(saved)[i] \in DocIds(saved)

C29_ResumeIndex ==
  (last.op = "resume") =>
    LET cq == input.currentQuestionId
        len == Len(questions)
    IN /\ (cq # JNull /\ HasId(questions, cq.s)) =>
            /\ questions[currentIndex + 1].id = cq.s
            /\ \A i \in 1..currentIndex : questions[i].id # cq.s
       /\ (len > 0 /\ ~(cq # JNull /\ HasId(questions, cq.s))) =>
            currentIndex = IF input.currentIndex < 0 THEN 0
                           ELSE IF input.currentIndex > len - 1 THEN len - 1
                           ELSE input.currentIndex
       /\ (len = 0) => currentIndex = 0
       /\ (len > 0) => currentIndex \in 0..(len - 1)

\* a resume that found the question shown at the second position of the
\* reconstructed order, while the saved index named the first
C29_Witness ==
  /\ last.op = "resume"
  /\ input.currentQuestionId = JStr(QId(2))
  /\ input.currentIndex = 0
  /\ currentIndex = 1
  /\ Len(questions) = 2

\* C30: in every reachable state with phase active, 0 <= currentIndex <
\* the number of questions in the question order, after any sequence of
\* load, start, answer, advance, retreat, declined finish, quit and resume.
C30_IndexInRange ==
  (view = "quiz") => (currentIndex >= 0 /\ currentIndex < Len(questions))

\* the active phase on the last question, reached by an advance
C30_Witness ==
  /\ view = "quiz"
  /\ last.op = "next"
  /\ currentIndex = Len(questions) - 1
  /\ currentIndex > 0

\* C31: handleNext with the current question answered increases
\* currentIndex by exactly one, except on the last question, where it
\* changes nothing; handlePrev decreases currentIndex by exactly one,
\* except at index 0, where it changes nothing, whether or not the current
\* question is answered; neither changes answers, question order or phase.
C31_NextAndPrev ==
  [][/\ (last'.op = "next") =>
          /\ UNCHANGED << answers, questions, view >>
          /\ (AnswerOf(answers, current.id) # Undefined) =>
               currentIndex' = IF currentIndex = Len(questions) - 1 THEN currentIndex
                               ELSE currentIndex + 1
     /\ (last'.op = "prev") =>
          /\ UNCHANGED << answers, questions, view >>
          /\ currentIndex' = IF currentIndex = 0 THEN 0 ELSE currentIndex - 1
    ]_vars

\* after an advance past the answered first question, a retreat from the
\* second question, which has no answer
C31_Witness ==
  /\ last.op = "prev"
  /\ view = "quiz"
  /\ currentIndex = 0
  /\ Len(questions) >= 2
  /\ AnswerOf(answers, questions[1].id) # Undefined
  /\ AnswerOf(answers, questions[2].id) = Undefined

\* C32: a failing store never interrupts the interactive flow: a failed
\* auto-save leaves phase, answers, position and order unchanged; a quit
\* whose save fails still goes to setup; a failed load at startup adds no
\* resume offer; a failed delete still resets the session to setup; no
\* store failure sets the error message.
C32_StoreFailuresTolerated ==
  [][(last'.op \in {"saved", "loaded", "cleared"} /\ ~last'.ok) =>
       /\ UNCHANGED error
       /\ (last'.op = "saved" /\ last'.kind = "autosave") =>
            UNCHANGED << view, answers, currentIndex, questions, savedQuizData >>
       /\ (last'.op = "saved" /\ last'.kind = "quit") =>
            /\ view' = "setup"
            /\ UNCHANGED << answers, currentIndex, questions, savedQuizData >>
       /\ (last'.op = "loaded") =>
            UNCHANGED << view, answers, currentIndex, questions, savedQuizData >>
       /\ (last'.op = "cleared") =>
            /\ view' = "setup"
            /\ quizData' = Null /\ questions' = << >> /\ answers' = EmptyAnswers
            /\ currentIndex' = 0 /\ savedQuizId' = Null /\ savedQuizData' = Null
    ]_vars

\* the save of a quit has failed and the page shows the setup screen, with
\* the answers given and without a resume offer
C32_Witness ==
  /\ last.op = "saved" /\ last.kind = "quit" /\ ~last.ok
  /\ view = "setup"
  /\ answers # EmptyAnswers
  /\ savedQuizData = Null
  /\ error = Null

C34_LoadsMostRecent ==
  (last.op = "loaded" /\ last.ok) =>
    IF DOMAIN store = {} THEN last.found = Null
    ELSE /\ \E k \in DOMAIN store : store[k] = last.found
         /\ \A k \in DOMAIN store : store[k].timestamp <= last.found.timestamp

\* the older session of two holds the later snapshot, and that was loaded
C34_Witness ==
  /\ last.op = "loaded" /\ last.ok
  /\ Cardinality(DOMAIN store) = 2
  /\ last.found # Null
  /\ \E k \in DOMAIN store :
       /\ store[k].timestamp < last.found.timestamp
       /\ store[k].id.sid > last.found.id.sid

\* C35: the store behaves as a map keyed by session id: a save that
\* succeeds replaces the record with the id of its snapshot and leaves the
\* records of other sessions unchanged, so the store holds one record per
\* session id at most; a delete that succeeds removes exactly the record
\* with the given id, and none when there is no such record.
C35_StoreIsAMap ==
  /\ [](\A k \in DOMAIN store : store[k].id = k)
  /\ [][/\ (last'.op = "saved" /\ last'.ok) =>
             LET rec == Head(inflight).payload IN
             /\ DOMAIN store' = DOMAIN store \cup {rec.id}
             /\ store'[rec.id] = rec
             /\ \A k \in DOMAIN store \ {rec.id} : store'[k] = store[k]
        /\ (last'.op = "cleared" /\ last'.ok) =>
             /\ DOMAIN store' = DOMAIN store \ {Head(inflight).id}
             /\ \A k \in DOMAIN store' : store'[k] = store[k]
       ]_vars

\* the record of the second session was deleted and that of the first is
\* left; the delete that follows finds no record under its id
C35_Witness ==
  /\ last.op = "cleared" /\ last.ok
  /\ DOMAIN store = {[sid |-> 1]}
  /\ inflight # << >>
  /\ Head(inflight).kind = "clear"
  /\ Head(inflight).id = [sid |-> 2]

\* C36: an auto-save whose write is in flight cannot undo a later delete:
\* once handleClearSavedQuiz has completed for a session and the store
\* holds no record of it, the next step brings back neither a record of
\* that session nor a resume offer for it.
C36_DeleteIsFinal ==
  [][(/\ last.op = "cleared" /\ last.ok /\ last.done
      /\ last.id \notin DOMAIN store)
     => /\ last.id \notin DOMAIN store'
        /\ (savedQuizData' = Null \/ savedQuizData'.id # last.id)
    ]_vars

\* C37: if the store holds a snapshot that is not completed and less than
\* seven days old, the startup whose load succeeds offers a snapshot for
\* resume, also when other sessions were saved later or are completed
\* (stated for stores whose records differ in their timestamps).
C37_UnfinishedIsOffered ==
  (/\ last.op = "loaded" /\ last.ok
   /\ \A k, m \in DOMAIN store : store[k].timestamp = store[m].timestamp => k = m
   /\ \E k \in DOMAIN store :
        ~store[k].completed /\ now - store[k].timestamp < SevenDays)
  => savedQuizData # Null

\* C38: while the quiz is shown, every question at a position before
\* currentIndex has a defined answer; and as long as the quiz stays on the
\* same questions no answer that is defined becomes undefined.
C38_PassedPositionsAnswered ==
  /\ [](view = "quiz" =>
          \A i \in 1..Len(questions) :
            i < currentIndex + 1 => AnswerOf(answers, questions[i].id) # Undefined)
  /\ [][(view = "quiz" /\ view' = "quiz" /\ questions' = questions)
          => \A id \in DOMAIN answers :
               answers[id] # Undefined => AnswerOf(answers', id) # Undefined]_vars

\* a quiz resumed after a quit on its second question, the first answered
C38_Witness ==
  /\ view = "quiz" /\ last.op = "resume"
  /\ currentIndex = 1
  /\ AnswerOf(answers, questions[1].id) # Undefined

\* C39: whenever the quiz is shown, a document with at least one question is
\* loaded, the session id is set and a current question exists; quit
\* creates no session id; the session id does not change while the quiz
\* stays shown, and every save issued carries the session id of the moment.
C39_ActiveHasSession ==
  /\ [](view = "quiz" =>
          /\ quizData # Null
          /\ Len(quizData.questions) >= 1
          /\ savedQuizId # Null
          /\ HasCurrent)
  /\ [][/\ last'.op = "quit" => (savedQuizId' = savedQuizId /\ idsIssued' = idsIssued)
        /\ (view = "quiz" /\ view' = "quiz") => savedQuizId' = savedQuizId
        /\ (last'.op \in {"quit", "timer"} /\ inflight' # inflight)
             => inflight'[Len(inflight')].payload.id = savedQuizId
       ]_vars

\* the quit of a resumed quiz has been issued and its save is in flight
\* under the id of the snapshot resumed
C39_Witness ==
  /\ last.op = "quit" /\ view = "quiz"
  /\ inflight # << >>
  /\ inflight[Len(inflight)].kind = "quit"
  /\ inflight[Len(inflight)].payload.id = savedQuizId
  /\ savedQuizId \in DOMAIN store

\* C40: a handleLoadText whose text is empty, unparsable or invalid sets the
\* error message and changes nothing else: the view, the document, the
\* question order, the answers, the index, the session id and the resume
\* offer are as before the call.
C40_FailedLoadChangesOnlyError ==
  [][(last'.op = "load" /\ ~last'.ok)
       => /\ error' # Null
          /\ UNCHANGED << view, quizData, questions, originalQuestions, quizSettings,
                          currentIndex, answers, savedQuizId, savedQuizData,
                          restoringQuizRef, store, idsIssued, timerPending, inflight >>
    ]_vars

\* an unparsable text was pasted on the setup screen after a quit, with the
\* document still loaded and its snapshot offered for resume
C40_Witness ==
  /\ last.op = "load" /\ ~last.ok
  /\ error # Null /\ error.kind = "failed to parse file"
  /\ view = "setup"
  /\ quizData # Null /\ savedQuizId # Null
  /\ savedQuizData # Null
  /\ DOMAIN answers # {}

====
